---- MODULE Spec2Model ----
(***************************************************************************)
(* BitaxePID: the tuning controller (PIDTuningStrategy.adjust,             *)
(* PIDTuningStrategy.apply_strategy, TempWatchTuningStrategy.adjust,       *)
(* BitaxeTuner._adjust_normal_mode, BitaxeTuner._adjust_temp_watch) and    *)
(* the sampling loop of TuneBitaxeUseCase; the pool selectors of pools.py  *)
(* and get_top_pools; BitaxeAPIClient.restart; main() of bitaxepid.py from *)
(* the construction of the use case to the exit of the process.            *)
(*                                                                         *)
(* Units: voltage in mV, frequency in MHz, temperature in degrees C,       *)
(* hashrate in GH/s, power in mW (the device reports W; 16.125 W is        *)
(* 16125 here, so that power > power_limit * 1.075 stays in the integers). *)
(* An optional value (Python None, a missing dictionary key) is the empty  *)
(* sequence; a present value x is <<x>>.                                   *)
(***************************************************************************)
EXTENDS Integers, Sequences, FiniteSets, TLC

VARIABLES
    kind,              \* which controller runs: see Kinds
    cfg,               \* envelope and targets, loaded once
    current_voltage,   \* the stored operating point
    current_frequency,
    last_hashrate,     \* trend state of the controller
    drop_count,
    stagnation_count,
    pid_loaded,        \* the PID accumulators hold history (FALSE: cleared)
    info,              \* the telemetry sample of the cycle, None when absent
    dec,               \* the decision of the iteration: inputs, branch, result
    pc,                \* position of the loop
    hw,                \* the settings last sent to the device
    snapshot,          \* the persisted snapshot
    catalog,           \* pools.yaml as a reader loads it
    net,               \* what connecting to each host gives, attempt by attempt
    call,              \* the call of a pool selector: arguments, then results
    fs,                \* the directory of pools.yaml: names, and contents by inode
    procs,             \* the runs of measure_pools in progress
    seen,              \* what load_pools last returned to a concurrent reader
    running,           \* self.running of TuneBitaxeUseCase
    signals,           \* the SIGINTs handled so far
    events,            \* what the iteration in progress has done, in order
    saved              \* whether the last snapshot write succeeded, None before the first

\* The state of the tuner and the state of the pool selection.
tunevars == <<kind, cfg, current_voltage, current_frequency, last_hashrate,
              drop_count, stagnation_count, pid_loaded, info, dec, pc, hw, snapshot>>
poolvars == <<catalog, net, call>>
filevars == <<fs, procs, seen>>
runvars == <<running, signals, events, saved>>

vars == <<tunevars, poolvars, filevars, runvars>>

None == <<>>
Some(x) == <<x>>

Min(a, b) == IF a < b THEN a ELSE b
Max(a, b) == IF a > b THEN a ELSE b

(***************************************************************************)
(* Configuration                                                           *)
(***************************************************************************)

\* bitaxepid.py DEFAULTS: the configuration of TuneBitaxeUseCase when no
\* file or flag overrides it.
DEFAULTS ==
    [INITIAL_VOLTAGE |-> 1200, INITIAL_FREQUENCY |-> 500,
     MIN_VOLTAGE |-> 1100, MAX_VOLTAGE |-> 1300,
     MIN_FREQUENCY |-> 400, MAX_FREQUENCY |-> 550,
     FREQUENCY_STEP |-> 25, VOLTAGE_STEP |-> 10,
     TARGET_TEMP |-> 45, POWER_LIMIT |-> 15, HASHRATE_SETPOINT |-> 500]

\* bitaxe.py DEFAULTS: BitaxeTuner reads its envelope from these.
TUNER_DEFAULTS ==
    [INITIAL_VOLTAGE |-> 1200, INITIAL_FREQUENCY |-> 450,
     TARGET_TEMP |-> 45, POWER_LIMIT |-> 15, HASHRATE_SETPOINT |-> 450,
     MIN_VOLTAGE |-> 1100, MAX_VOLTAGE |-> 2400,
     MIN_FREQUENCY |-> 400, MAX_FREQUENCY |-> 550,
     VOLTAGE_STEP |-> 10, FREQUENCY_STEP |-> 25]

\* The fields a strategy keeps from its constructor arguments.
StrategyConfig(d) ==
    [min_voltage |-> d.MIN_VOLTAGE, max_voltage |-> d.MAX_VOLTAGE,
     min_frequency |-> d.MIN_FREQUENCY, max_frequency |-> d.MAX_FREQUENCY,
     voltage_step |-> d.VOLTAGE_STEP, frequency_step |-> d.FREQUENCY_STEP,
     target_temp |-> d.TARGET_TEMP, power_limit |-> d.POWER_LIMIT,
     setpoint |-> d.HASHRATE_SETPOINT]

\* The constructor call shown in apply_strategy's docstring:
\* PIDTuningStrategy(0.2, 0.01, 0.02, 0.1, 0.01, 0.02, 1100, 1300, 400, 575,
\*                   10, 25, 525, 5, 55, 15)
ApplyStrategyConfig ==
    [min_voltage |-> 1100, max_voltage |-> 1300,
     min_frequency |-> 400, max_frequency |-> 575,
     voltage_step |-> 10, frequency_step |-> 25,
     target_temp |-> 55, power_limit |-> 15, setpoint |-> 525]

Kinds == {"adjust", "apply_strategy", "temp_watch", "normal_mode", "tuner_temp_watch"}

ConfigOf(k) ==
    CASE k \in {"adjust", "temp_watch"} -> StrategyConfig(DEFAULTS)
      [] k = "apply_strategy" -> ApplyStrategyConfig
      [] OTHER -> StrategyConfig(TUNER_DEFAULTS)

(***************************************************************************)
(* Controller arithmetic                                                   *)
(***************************************************************************)

\* Python's round(x / step) for an integer x >= 0: to the nearest integer,
\* a tie to the even one.
Round(x, step) ==
    LET q == x \div step
        r == x % step
    IN  IF 2 * r < step THEN q
        ELSE IF 2 * r > step THEN q + 1
        ELSE IF q % 2 = 0 THEN q ELSE q + 1

\* Propose without the rounding to the step.
Propose_unquantized(output, step, lo, hi) == Max(lo, Min(hi, output))

\* proposed = round(output / step) * step; proposed = max(lo, min(hi, proposed))
Propose(output, step, lo, hi) == Max(lo, Min(hi, Round(output, step) * step))

\* power > power_limit * 1.075, power in mW and power_limit in W
PowerExceeded(power, power_limit) == power > power_limit * 1075

\* hashrate < 0.85 * setpoint
HashrateLow(hashrate, setpoint) == hashrate * 100 < 85 * setpoint

\* hashrate_dropped = last_hashrate is not None and hashrate < last_hashrate
hashrate_dropped(last, hashrate) == last # None /\ hashrate < last[1]

\* stagnated = last_hashrate == hashrate
stagnated(last, hashrate) == last = Some(hashrate)

(***************************************************************************)
(* Controller decisions.  c is the strategy's configuration, st its trend  *)
(* state [last_hashrate, drop_count, stagnation_count, pid_loaded], (v, f) *)
(* the current point, freq_output and volt_output what the two PID         *)
(* controllers (simple_pid, output_limits = the envelope) return for the   *)
(* hashrate.  The result holds the new point, the branch taken and the     *)
(* trend state the decision leaves.                                        *)
(***************************************************************************)

\* adjust_temperature stepping the frequency the wrong way.
adjust_temperature_raises(c, v, f) ==
    IF f > c.min_frequency
    THEN [voltage |-> v, frequency |-> f + c.frequency_step, branch |-> "temp_freq"]
    ELSE IF v > c.min_voltage
    THEN [voltage |-> v - c.voltage_step, frequency |-> f, branch |-> "temp_volt"]
    ELSE [voltage |-> v, frequency |-> f, branch |-> "temp_hold"]

\* adjust_temperature without the voltage step at the frequency floor.
adjust_temperature_frequency_only(c, v, f) ==
    IF f > c.min_frequency
    THEN [voltage |-> v, frequency |-> f - c.frequency_step, branch |-> "temp_freq"]
    ELSE [voltage |-> v, frequency |-> f, branch |-> "temp_hold"]

\* PIDTuningStrategy.adjust, the branch temp > target_temp: one frequency
\* step down while above the floor, else one voltage step down while above
\* the floor, else nothing.
adjust_temperature(c, v, f) ==
    IF f > c.min_frequency
    THEN [voltage |-> v, frequency |-> f - c.frequency_step, branch |-> "temp_freq"]
    ELSE IF v > c.min_voltage
    THEN [voltage |-> v - c.voltage_step, frequency |-> f, branch |-> "temp_volt"]
    ELSE [voltage |-> v, frequency |-> f, branch |-> "temp_hold"]

\* adjust_power without the check of the voltage floor.
adjust_power_unguarded(c, v, f) ==
    [voltage |-> v - c.voltage_step, frequency |-> f, branch |-> "power_volt"]

\* PIDTuningStrategy.adjust, the branch power > power_limit * 1.075
adjust_power(c, v, f) ==
    IF v > c.min_voltage
    THEN [voltage |-> v - c.voltage_step, frequency |-> f, branch |-> "power_volt"]
    ELSE [voltage |-> v, frequency |-> f, branch |-> "power_hold"]

\* adjust_hashrate optimising also when the hashrate equals the setpoint.
adjust_hashrate_inclusive(c, drops, v, f, hashrate, proposed_frequency, proposed_voltage) ==
    IF hashrate <= c.setpoint THEN
        IF drops >= 30 /\ f > c.min_frequency
        THEN [voltage |-> v, frequency |-> f - c.frequency_step, branch |-> "damp"]
        ELSE LET boosted == IF HashrateLow(hashrate, c.setpoint) /\ v < c.max_voltage
                            THEN Min(proposed_voltage, v + c.voltage_step)
                            ELSE v
             IN  [voltage |-> IF f >= c.max_frequency /\ v < c.max_voltage
                              THEN v + c.voltage_step
                              ELSE boosted,
                  frequency |-> proposed_frequency,
                  branch |-> "optimize"]
    ELSE [voltage |-> v, frequency |-> f, branch |-> "stable"]

\* PIDTuningStrategy.adjust, the branches on the hashrate: below the
\* setpoint (damping, or the PID proposals) and the stable else-branch.
adjust_hashrate(c, drops, v, f, hashrate, proposed_frequency, proposed_voltage) ==
    IF hashrate < c.setpoint THEN
        IF drops >= 30 /\ f > c.min_frequency
        THEN [voltage |-> v, frequency |-> f - c.frequency_step, branch |-> "damp"]
        ELSE LET boosted == IF HashrateLow(hashrate, c.setpoint) /\ v < c.max_voltage
                            THEN Min(proposed_voltage, v + c.voltage_step)
                            ELSE v
             IN  [voltage |-> IF f >= c.max_frequency /\ v < c.max_voltage
                              THEN v + c.voltage_step
                              ELSE boosted,
                  frequency |-> proposed_frequency,
                  branch |-> "optimize"]
    ELSE [voltage |-> v, frequency |-> f, branch |-> "stable"]

\* adjust counting drops only in the decisions that reach the hashrate
\* rules: a temperature or power constraint leaves drop_count as it was.
adjust_counts_when_unconstrained(c, st, v, f, temp, hashrate, power, freq_output, volt_output) ==
    LET proposed_frequency ==
            Propose(freq_output, c.frequency_step, c.min_frequency, c.max_frequency)
        proposed_voltage ==
            Propose(volt_output, c.voltage_step, c.min_voltage, c.max_voltage)
        constrained == temp > c.target_temp \/ PowerExceeded(power, c.power_limit)
        drops == IF constrained THEN st.drop_count
                 ELSE IF hashrate_dropped(st.last_hashrate, hashrate)
                 THEN st.drop_count + 1 ELSE 0
        stagnation == IF stagnated(st.last_hashrate, hashrate)
                      THEN st.stagnation_count + 1 ELSE 0
        point ==
            IF temp > c.target_temp THEN adjust_temperature(c, v, f)
            ELSE IF PowerExceeded(power, c.power_limit) THEN adjust_power(c, v, f)
            ELSE adjust_hashrate(c, drops, v, f, hashrate,
                                 proposed_frequency, proposed_voltage)
    IN  [voltage |-> point.voltage, frequency |-> point.frequency,
         branch |-> point.branch,
         last_hashrate |-> Some(hashrate),
         drop_count |-> drops, stagnation_count |-> stagnation,
         pid_loaded |-> TRUE, pid_reset |-> FALSE]

\* PIDTuningStrategy.adjust of bitaxepid.py
adjust(c, st, v, f, temp, hashrate, power, freq_output, volt_output) ==
    LET proposed_frequency ==
            Propose(freq_output, c.frequency_step, c.min_frequency, c.max_frequency)
        proposed_voltage ==
            Propose(volt_output, c.voltage_step, c.min_voltage, c.max_voltage)
        drops == IF hashrate_dropped(st.last_hashrate, hashrate)
                 THEN st.drop_count + 1 ELSE 0
        stagnation == IF stagnated(st.last_hashrate, hashrate)
                      THEN st.stagnation_count + 1 ELSE 0
        point ==
            IF temp > c.target_temp THEN adjust_temperature(c, v, f)
            ELSE IF PowerExceeded(power, c.power_limit) THEN adjust_power(c, v, f)
            ELSE adjust_hashrate(c, drops, v, f, hashrate,
                                 proposed_frequency, proposed_voltage)
    IN  [voltage |-> point.voltage, frequency |-> point.frequency,
         branch |-> point.branch,
         last_hashrate |-> Some(hashrate),
         drop_count |-> drops, stagnation_count |-> stagnation,
         pid_loaded |-> TRUE, pid_reset |-> FALSE]

\* PIDTuningStrategy.apply_strategy of implementations.py
apply_strategy(c, st, v, f, temp, hashrate, power, freq_output, volt_output) ==
    LET proposed_frequency ==
            Propose(freq_output, c.frequency_step, c.min_frequency, c.max_frequency)
        proposed_voltage ==
            Propose(volt_output, c.voltage_step, c.min_voltage, c.max_voltage)
        drops == IF hashrate_dropped(st.last_hashrate, hashrate)
                 THEN st.drop_count + 1 ELSE 0
        stagnation == IF stagnated(st.last_hashrate, hashrate)
                      THEN st.stagnation_count + 1 ELSE 0
        new_voltage_1 == IF HashrateLow(hashrate, c.setpoint) /\ v < c.max_voltage
                         THEN Min(proposed_voltage, v + c.voltage_step)
                         ELSE v
        new_voltage_2 == IF f >= c.max_frequency /\ v < c.max_voltage
                         THEN v + c.voltage_step
                         ELSE new_voltage_1
        point ==
            IF temp > c.target_temp THEN
                IF f > c.min_frequency
                THEN [voltage |-> v, frequency |-> f - c.frequency_step, branch |-> "temp_freq"]
                ELSE IF v > c.min_voltage
                THEN [voltage |-> v - c.voltage_step, frequency |-> f, branch |-> "temp_volt"]
                ELSE [voltage |-> v, frequency |-> f, branch |-> "temp_hold"]
            ELSE IF PowerExceeded(power, c.power_limit) THEN
                IF v > c.min_voltage
                THEN [voltage |-> v - c.voltage_step, frequency |-> f, branch |-> "power_volt"]
                ELSE [voltage |-> v, frequency |-> f, branch |-> "power_hold"]
            ELSE IF hashrate < c.setpoint THEN
                IF drops >= 30 /\ f > c.min_frequency
                THEN [voltage |-> v, frequency |-> f - c.frequency_step, branch |-> "damp"]
                ELSE [voltage |-> new_voltage_2, frequency |-> proposed_frequency,
                      branch |-> "optimize"]
            ELSE [voltage |-> v, frequency |-> f, branch |-> "stable"]
    IN  [voltage |-> point.voltage, frequency |-> point.frequency,
         branch |-> point.branch,
         last_hashrate |-> Some(hashrate),
         drop_count |-> drops, stagnation_count |-> stagnation,
         pid_loaded |-> TRUE, pid_reset |-> FALSE]

\* TempWatchAdjust without the voltage step at the frequency floor.
TempWatchAdjust_frequency_only(c, st, v, f, temp) ==
    LET point ==
            IF temp > c.target_temp /\ f > c.min_frequency
            THEN [voltage |-> v, frequency |-> f - c.frequency_step, branch |-> "temp_freq"]
            ELSE IF temp > c.target_temp
            THEN [voltage |-> v, frequency |-> f, branch |-> "temp_hold"]
            ELSE [voltage |-> v, frequency |-> f, branch |-> "stable"]
    IN  [voltage |-> point.voltage, frequency |-> point.frequency,
         branch |-> point.branch,
         last_hashrate |-> st.last_hashrate,
         drop_count |-> st.drop_count, stagnation_count |-> st.stagnation_count,
         pid_loaded |-> st.pid_loaded, pid_reset |-> FALSE]

\* TempWatchTuningStrategy.adjust of bitaxepid.py: no trend state, no PID
TempWatchAdjust(c, st, v, f, temp) ==
    LET point ==
            IF temp > c.target_temp /\ f > c.min_frequency
            THEN [voltage |-> v, frequency |-> f - c.frequency_step, branch |-> "temp_freq"]
            ELSE IF temp > c.target_temp /\ v > c.min_voltage
            THEN [voltage |-> v - c.voltage_step, frequency |-> f, branch |-> "temp_volt"]
            ELSE IF temp > c.target_temp
            THEN [voltage |-> v, frequency |-> f, branch |-> "temp_hold"]
            ELSE [voltage |-> v, frequency |-> f, branch |-> "stable"]
    IN  [voltage |-> point.voltage, frequency |-> point.frequency,
         branch |-> point.branch,
         last_hashrate |-> st.last_hashrate,
         drop_count |-> st.drop_count, stagnation_count |-> st.stagnation_count,
         pid_loaded |-> st.pid_loaded, pid_reset |-> FALSE]

\* BitaxeTuner._adjust_temp_watch of bitaxe.py; monitor_and_adjust then
\* stores the reading in last_hashrate.
_adjust_temp_watch(c, st, v, f, temp, hashrate) ==
    LET point ==
            IF temp > c.target_temp THEN
                IF f > c.min_frequency
                THEN [voltage |-> v, frequency |-> f - c.frequency_step, branch |-> "temp_freq"]
                ELSE IF v > c.min_voltage
                THEN [voltage |-> v - c.voltage_step, frequency |-> f, branch |-> "temp_volt"]
                ELSE [voltage |-> v, frequency |-> f, branch |-> "temp_hold"]
            ELSE [voltage |-> v, frequency |-> f, branch |-> "stable"]
    IN  [voltage |-> point.voltage, frequency |-> point.frequency,
         branch |-> point.branch,
         last_hashrate |-> Some(hashrate),
         drop_count |-> st.drop_count, stagnation_count |-> st.stagnation_count,
         pid_loaded |-> st.pid_loaded, pid_reset |-> FALSE]

\* BitaxeTuner._adjust_normal_mode of bitaxe.py, on the module's globals
\* last_hashrate, stagnation_count and drop_count; monitor_and_adjust then
\* stores the reading in last_hashrate.
_adjust_normal_mode(c, st, v, f, temp, hashrate, power, freq_output, volt_output) ==
    LET proposed_frequency ==
            Propose(freq_output, c.frequency_step, c.min_frequency, c.max_frequency)
        proposed_voltage ==
            Propose(volt_output, c.voltage_step, c.min_voltage, c.max_voltage)
        drops == IF hashrate_dropped(st.last_hashrate, hashrate)
                 THEN st.drop_count + 1 ELSE 0
        counted == IF stagnated(st.last_hashrate, hashrate)
                   THEN st.stagnation_count + 1 ELSE 0
        reset == counted >= 3
        over == PowerExceeded(power, c.power_limit)
        \* the three statements of the optimisation branch, in order
        v1 == IF HashrateLow(hashrate, c.setpoint) /\ v < c.max_voltage
              THEN Min(proposed_voltage, v + c.voltage_step)
              ELSE v
        f1 == IF v1 >= 1150 THEN proposed_frequency ELSE f
        v2 == IF f1 >= c.max_frequency /\ v1 < c.max_voltage
              THEN v1 + c.voltage_step
              ELSE v1
        point ==
            IF temp > c.target_temp \/ over THEN
                IF over /\ v > c.min_voltage
                THEN [voltage |-> v - c.voltage_step, frequency |-> f, branch |-> "power_volt"]
                ELSE IF temp > c.target_temp THEN
                    IF f > c.min_frequency /\ drops < 3
                    THEN [voltage |-> v, frequency |-> f - c.frequency_step, branch |-> "temp_freq"]
                    ELSE IF v > c.min_voltage
                    THEN [voltage |-> v - c.voltage_step, frequency |-> f, branch |-> "temp_volt"]
                    ELSE [voltage |-> v, frequency |-> f, branch |-> "temp_hold"]
                ELSE [voltage |-> v, frequency |-> f, branch |-> "power_hold"]
            ELSE IF hashrate < c.setpoint THEN
                IF drops >= 3 /\ f > c.min_frequency
                THEN [voltage |-> v, frequency |-> f - c.frequency_step, branch |-> "damp"]
                ELSE [voltage |-> v2, frequency |-> f1, branch |-> "optimize"]
            ELSE [voltage |-> v, frequency |-> f, branch |-> "stable"]
    IN  [voltage |-> point.voltage, frequency |-> point.frequency,
         branch |-> point.branch,
         last_hashrate |-> Some(hashrate),
         drop_count |-> drops,
         stagnation_count |-> IF reset THEN 0 ELSE counted,
         pid_loaded |-> ~reset, pid_reset |-> reset]

(***************************************************************************)
(* Hardware gateway and telemetry                                          *)
(***************************************************************************)

\* BitaxeAPI.set_settings: the body of the PATCH request.  The frequency is
\* rounded to the step and clamped, the voltage is clamped only; the
\* frequency is what the call returns.
set_settings(c, voltage, frequency) ==
    [coreVoltage |-> Max(c.min_voltage, Min(c.max_voltage, voltage)),
     frequency |-> Propose(frequency, c.frequency_step, c.min_frequency, c.max_frequency)]

\* temp = float(info["temp"]) if the reading is there, else
\* DEFAULTS["TARGET_TEMP"] + 1 (TuneBitaxeUseCase.start).
TempOf(i) == IF i.temp # None THEN i.temp[1] ELSE DEFAULTS.TARGET_TEMP + 1

\* The trend state as the decision operators take it.
TrendState ==
    [last_hashrate |-> last_hashrate, drop_count |-> drop_count,
     stagnation_count |-> stagnation_count, pid_loaded |-> pid_loaded]

NoDecision == [acted |-> FALSE]

\* No pool selector is called in the runs of the controller.
NoCall == [fn |-> "none"]
NoFiles == fs = None /\ procs = None /\ seen = None
NoPools == catalog = None /\ net = None /\ call = NoCall /\ NoFiles

\* No SIGINT is sent in the runs that do not model main(): running stays
\* as __init__ sets it.
NoSignal == running = TRUE /\ signals = 0 /\ events = <<>> /\ saved = None

\* What a decision r, taken on telemetry (temp, hashrate, power) at the
\* current point, is remembered as.
Decision(r, temp, hashrate, power) ==
    [acted |-> TRUE, in_voltage |-> current_voltage, in_frequency |-> current_frequency,
     temp |-> temp, hashrate |-> hashrate, power |-> power,
     voltage |-> r.voltage, frequency |-> r.frequency,
     branch |-> r.branch, pid_reset |-> r.pid_reset]

(***************************************************************************)
(* Bounds and sampled inputs                                               *)
(***************************************************************************)

\* stagnation_count of PIDTuningStrategy grows without limit: readings equal
\* to the last one are drawn only while it is below this.
MaxStagnation == 4

Hashrates == {300, 440, 500, 560}
Powers == {16125, 17000}
TempReadings(c) == {c.target_temp, c.target_temp + 2}

\* What the PID controllers can return: values within output_limits.
FreqOutputs(c) == {c.min_frequency, 487, c.max_frequency}
VoltOutputs(c) == {c.min_voltage, 1205, 1215, c.max_voltage}

\* Points a decision is entered with: the corners and their neighbours, the
\* 1150 mV threshold of BitaxeTuner, and two points a command line or a
\* snapshot can give that are off the step grid or outside the envelope.
VoltageSamples(c) ==
    {c.min_voltage, c.min_voltage + c.voltage_step, 1140, 1150,
     c.max_voltage - c.voltage_step, c.max_voltage,
     c.min_voltage + 5, c.max_voltage + c.voltage_step}
FrequencySamples(c) ==
    {c.min_frequency, c.min_frequency + c.frequency_step,
     c.max_frequency - c.frequency_step, c.max_frequency, 510}

\* Trend states a run can be in before a decision.  No reading yet: the
\* counters are 0.  After a drop the stagnation count is 0, after an equal
\* reading the drop count is 0.  BitaxeTuner resets its stagnation count
\* when it reaches 3.
DropSamples == {0, 2, 3, 29, 30}
TrendSamples(k) ==
    IF k \in {"temp_watch"}
    THEN {[last_hashrate |-> None, drop_count |-> 0, stagnation_count |-> 0,
           pid_loaded |-> FALSE]}
    ELSE {[last_hashrate |-> None, drop_count |-> 0, stagnation_count |-> 0,
           pid_loaded |-> FALSE]}
         \cup {[last_hashrate |-> Some(h), drop_count |-> d, stagnation_count |-> 0,
                pid_loaded |-> TRUE] : h \in Hashrates, d \in DropSamples}
         \cup {[last_hashrate |-> Some(h), drop_count |-> 0, stagnation_count |-> n,
                pid_loaded |-> TRUE] :
                    h \in Hashrates,
                    n \in 1..(IF k \in {"normal_mode", "tuner_temp_watch"}
                              THEN 2 ELSE MaxStagnation)}
         \cup {[last_hashrate |-> Some(h), drop_count |-> 0, stagnation_count |-> 0,
                pid_loaded |-> FALSE] :
                    h \in IF k = "normal_mode" THEN Hashrates ELSE {}}

(***************************************************************************)
(* Single decisions: a controller is entered once with a point, a trend    *)
(* state and a telemetry sample drawn from the samples above.              *)
(***************************************************************************)

InitDecide ==
    /\ kind \in Kinds
    /\ cfg = ConfigOf(kind)
    /\ current_voltage \in VoltageSamples(cfg)
    /\ current_frequency \in FrequencySamples(cfg)
    /\ \E st \in TrendSamples(kind) :
          /\ last_hashrate = st.last_hashrate
          /\ drop_count = st.drop_count
          /\ stagnation_count = st.stagnation_count
          /\ pid_loaded = st.pid_loaded
    /\ info \in {Some([temp |-> Some(t), hashRate |-> h, power |-> p]) :
                    t \in TempReadings(cfg), h \in Hashrates, p \in Powers}
    /\ dec = NoDecision
    /\ pc = "args"
    /\ hw = None
    /\ snapshot = None
    /\ NoPools
    /\ NoSignal

\* The controller returns r for the sample in info.
Return(r) ==
    /\ current_voltage' = r.voltage
    /\ current_frequency' = r.frequency
    /\ last_hashrate' = r.last_hashrate
    /\ drop_count' = r.drop_count
    /\ stagnation_count' = r.stagnation_count
    /\ pid_loaded' = r.pid_loaded
    /\ dec' = Decision(r, info[1].temp[1], info[1].hashRate, info[1].power)
    /\ pc' = "result"
    /\ UNCHANGED <<kind, cfg, info, hw, snapshot>>
    /\ UNCHANGED <<poolvars, filevars, runvars>>

DecideAdjust ==
    /\ pc = "args" /\ kind = "adjust"
    /\ \E fo \in FreqOutputs(cfg), vo \in VoltOutputs(cfg) :
          Return(adjust(cfg, TrendState, current_voltage, current_frequency,
                        info[1].temp[1], info[1].hashRate, info[1].power, fo, vo))

DecideApplyStrategy ==
    /\ pc = "args" /\ kind = "apply_strategy"
    /\ \E fo \in FreqOutputs(cfg), vo \in VoltOutputs(cfg) :
          Return(apply_strategy(cfg, TrendState, current_voltage, current_frequency,
                                info[1].temp[1], info[1].hashRate, info[1].power, fo, vo))

DecideTempWatch ==
    /\ pc = "args" /\ kind = "temp_watch"
    /\ Return(TempWatchAdjust(cfg, TrendState, current_voltage, current_frequency,
                              info[1].temp[1]))

DecideNormalMode ==
    /\ pc = "args" /\ kind = "normal_mode"
    /\ \E fo \in FreqOutputs(cfg), vo \in VoltOutputs(cfg) :
          Return(_adjust_normal_mode(cfg, TrendState, current_voltage, current_frequency,
                                     info[1].temp[1], info[1].hashRate, info[1].power,
                                     fo, vo))

DecideTunerTempWatch ==
    /\ pc = "args" /\ kind = "tuner_temp_watch"
    /\ Return(_adjust_temp_watch(cfg, TrendState, current_voltage, current_frequency,
                                 info[1].temp[1], info[1].hashRate))

NextDecide ==
    \/ DecideAdjust
    \/ DecideApplyStrategy
    \/ DecideTempWatch
    \/ DecideNormalMode
    \/ DecideTunerTempWatch

SpecDecide == InitDecide /\ [][NextDecide]_vars

(***************************************************************************)
(* TuneBitaxeUseCase: main() builds the strategy, the gateway and the use  *)
(* case; start() runs the sampling loop.                                   *)
(***************************************************************************)

\* The initial point main() passes on: --voltage / --frequency when given,
\* else the snapshot's values, else INITIAL_VOLTAGE / INITIAL_FREQUENCY.
\* None of the three is checked against the envelope.
InitialVoltages == {DEFAULTS.INITIAL_VOLTAGE, 1310}
InitialFrequencies == {DEFAULTS.INITIAL_FREQUENCY, 600}

\* target_temp = args.target_temp if given, else config["TARGET_TEMP"]: the
\* default, or a target a flag or the configuration file sets.
TargetTemps == {DEFAULTS.TARGET_TEMP, 60}

\* The state after TuneBitaxeUseCase.__init__: the point is stored as given
\* and sent through set_settings, whose result is not kept.
Init ==
    /\ kind \in {"adjust", "temp_watch"}
    /\ cfg \in {[ConfigOf(kind) EXCEPT !.target_temp = t] : t \in TargetTemps}
    /\ current_voltage \in InitialVoltages
    /\ current_frequency \in InitialFrequencies
    /\ last_hashrate = None
    /\ drop_count = 0
    /\ stagnation_count = 0
    /\ pid_loaded = FALSE
    /\ info = None
    /\ dec = NoDecision
    /\ pc = "fetch"
    /\ hw = Some(set_settings(cfg, current_voltage, current_frequency))
    /\ snapshot = None
    /\ NoPools
    /\ NoSignal

\* info = self.hardware_gateway.get_system_info() answers.
Fetch ==
    /\ pc = "fetch"
    /\ \E t \in {None} \cup {Some(x) : x \in TempReadings(cfg)},
          h \in Hashrates, p \in Powers :
          /\ (kind = "adjust" /\ stagnated(last_hashrate, h))
                => stagnation_count < MaxStagnation
          /\ info' = Some([temp |-> t, hashRate |-> h, power |-> p])
    /\ dec' = NoDecision
    /\ pc' = "adjust"
    /\ UNCHANGED <<kind, cfg, current_voltage, current_frequency, last_hashrate,
                   drop_count, stagnation_count, pid_loaded, hw, snapshot>>
    /\ UNCHANGED <<poolvars, filevars, runvars>>

\* A failed fetch after which the trend tracking starts afresh.
FetchFail_forgets_trend ==
    /\ pc = "fetch"
    /\ info' = None
    /\ dec' = NoDecision
    /\ last_hashrate' = None
    /\ drop_count' = 0
    /\ stagnation_count' = 0
    /\ UNCHANGED <<kind, cfg, current_voltage, current_frequency, pid_loaded, pc, hw, snapshot>>
    /\ UNCHANGED <<poolvars, filevars, runvars>>

\* get_system_info() returns None: sleep, next iteration.
FetchFail ==
    /\ pc = "fetch"
    /\ info' = None
    /\ dec' = NoDecision
    /\ UNCHANGED <<kind, cfg, current_voltage, current_frequency, last_hashrate,
                   drop_count, stagnation_count, pid_loaded, pc, hw, snapshot>>
    /\ UNCHANGED <<poolvars, filevars, runvars>>

\* The rest of the iteration for a decision r: the new voltage is stored as
\* returned, the new frequency as set_settings returns it, the snapshot is
\* written, the loop sleeps.
Apply(r) ==
    LET sent == set_settings(cfg, r.voltage, r.frequency)
    IN  /\ current_voltage' = r.voltage
        /\ current_frequency' = sent.frequency
        /\ hw' = Some(sent)
        /\ snapshot' = Some([voltage |-> r.voltage, frequency |-> sent.frequency])
        /\ last_hashrate' = r.last_hashrate
        /\ drop_count' = r.drop_count
        /\ stagnation_count' = r.stagnation_count
        /\ pid_loaded' = r.pid_loaded
        /\ dec' = Decision(r, TempOf(info[1]), info[1].hashRate, info[1].power)
        /\ info' = None
        /\ pc' = "fetch"
        /\ UNCHANGED <<kind, cfg>>
        /\ UNCHANGED <<poolvars, filevars, runvars>>

CyclePID ==
    /\ pc = "adjust" /\ kind = "adjust"
    /\ \E fo \in FreqOutputs(cfg), vo \in VoltOutputs(cfg) :
          Apply(adjust(cfg, TrendState, current_voltage, current_frequency,
                       TempOf(info[1]), info[1].hashRate, info[1].power, fo, vo))

CycleTempWatch ==
    /\ pc = "adjust" /\ kind = "temp_watch"
    /\ Apply(TempWatchAdjust(cfg, TrendState, current_voltage, current_frequency,
                             TempOf(info[1])))

Next ==
    \/ Fetch
    \/ FetchFail
    \/ CyclePID
    \/ CycleTempWatch

Spec == Init /\ [][Next]_vars

(***************************************************************************)
(* Pools (pools.py, get_top_pools of bitaxepid.py).  An endpoint string is *)
(* the record of its parts: "stratum+tcp://a:3333" is                      *)
(* [scheme |-> TRUE, host |-> "a", port |-> <<Text3333>>], "a:3333" the    *)
(* same without the scheme, and the bare host name "a" has neither scheme  *)
(* nor port.  host is the text before the first ":" and port the text      *)
(* after it, a sequence of characters.  A catalog row is a record with the *)
(* key endpoint and the optional keys port, latency and last_tested.       *)
(* Latencies are in ms.                                                    *)
(***************************************************************************)

\* float("inf"): above every latency a measurement gives
inf == 1000000

Endpoint(scheme, host, port) == [scheme |-> scheme, host |-> host, port |-> port]

\* A bare host name, as parse_endpoint returns it.
Hostname(host) == Endpoint(FALSE, host, None)

DigitValue ==
    [c \in {"0", "1", "2", "3", "4", "5", "6", "7", "8", "9"} |->
        CASE c = "0" -> 0 [] c = "1" -> 1 [] c = "2" -> 2 [] c = "3" -> 3
          [] c = "4" -> 4 [] c = "5" -> 5 [] c = "6" -> 6 [] c = "7" -> 7
          [] c = "8" -> 8 [] c = "9" -> 9]

RECURSIVE DecimalValue(_)
DecimalValue(text) ==
    IF text = <<>> THEN 0
    ELSE 10 * DecimalValue(SubSeq(text, 1, Len(text) - 1)) + DigitValue[text[Len(text)]]

\* int(port_str): the number a text of decimal digits denotes; the empty
\* text and a text with any other character raise ValueError (ok |-> FALSE).
int(text) ==
    IF text # <<>> /\ \A i \in 1..Len(text) : text[i] \in DOMAIN DigitValue
    THEN [ok |-> TRUE, value |-> DecimalValue(text)]
    ELSE [ok |-> FALSE]

\* parse_endpoint: the scheme is stripped, the rest is split at the first
\* ":" and the text after it converted by int; with no ":", or a text that
\* int refuses, a ValueError is raised (ok |-> FALSE).
parse_endpoint(endpoint_str) ==
    IF endpoint_str.port # None /\ int(endpoint_str.port[1]).ok
    THEN [ok |-> TRUE, hostname |-> Hostname(endpoint_str.host),
          port |-> int(endpoint_str.port[1]).value]
    ELSE [ok |-> FALSE]

\* statistics.median of an odd number of values: the middle one in order.
median(values) ==
    CHOOSE x \in {values[i] : i \in 1..Len(values)} :
        LET below == Cardinality({i \in 1..Len(values) : values[i] < x})
            upto == Cardinality({i \in 1..Len(values) : values[i] <= x})
        IN  2 * below < Len(values) /\ 2 * upto > Len(values)

\* Connecting resolves the host name: a string that still holds a scheme or
\* a ":port" is not a host name and every attempt fails.
Resolvable(hostname) == ~hostname.scheme /\ hostname.port = None

\* measure_latency: five attempts, inf for a failed one, the median of all.
measure_latency(n, hostname, port) ==
    IF Resolvable(hostname) /\ hostname.host \in DOMAIN n
    THEN median(n[hostname.host])
    ELSE inf

\* load_pools: the rows of the file, [] when it cannot be read or does not
\* hold a list.
load_pools(file) == IF file.valid THEN file.rows ELSE <<>>

\* time.strftime(...) at the time of a measurement: parses, and is 0 minutes old.
Now == [valid |-> TRUE, age |-> 0]

\* pool.get("latency", float("inf"))
LatencyOf(pool) == IF pool.latency # None THEN pool.latency[1] ELSE inf

\* need_measure taking a last_tested that does not parse for a recent one.
need_measure_trusts_garbled(pools, force_measure, latency_expiry_minutes) ==
    \/ force_measure
    \/ \E i \in 1..Len(pools) :
          \/ pools[i].latency = None
          \/ pools[i].last_tested = None
          \/ /\ pools[i].last_tested[1].valid
             /\ pools[i].last_tested[1].age > latency_expiry_minutes

\* need_measure taking a measurement of exactly latency_expiry_minutes for
\* expired.
need_measure_expires_early(pools, force_measure, latency_expiry_minutes) ==
    \/ force_measure
    \/ \E i \in 1..Len(pools) :
          \/ pools[i].latency = None
          \/ pools[i].last_tested = None
          \/ ~pools[i].last_tested[1].valid
          \/ pools[i].last_tested[1].age >= latency_expiry_minutes

\* get_fastest_pools, need_measure: forced, or some row has no latency or
\* no last_tested, or a last_tested that does not parse, or one older than
\* latency_expiry_minutes.
need_measure(pools, force_measure, latency_expiry_minutes) ==
    \/ force_measure
    \/ \E i \in 1..Len(pools) :
          \/ pools[i].latency = None
          \/ pools[i].last_tested = None
          \/ ~pools[i].last_tested[1].valid
          \/ pools[i].last_tested[1].age > latency_expiry_minutes

\* A loop body that measures only the rows whose measurement is missing
\* or older than latency_expiry_minutes.
measure_pool_skips_fresh(n, pool) ==
    LET parsed == parse_endpoint(pool.endpoint)
        fresh == /\ pool.latency # None /\ pool.last_tested # None
                 /\ pool.last_tested[1].valid /\ pool.last_tested[1].age <= 15
    IN  IF fresh THEN pool
        ELSE IF parsed.ok
        THEN [pool EXCEPT !.latency = Some(measure_latency(n, parsed.hostname, parsed.port)),
                          !.port = Some(parsed.port),
                          !.last_tested = Some(Now)]
        ELSE [pool EXCEPT !.latency = Some(inf), !.port = Some(0),
                          !.last_tested = Some(Now)]

\* measure_pools, the body of the loop: the row with its new latency, port
\* and last_tested; a ValueError of parse_endpoint gives inf and port 0.
measure_pool(n, pool) ==
    LET parsed == parse_endpoint(pool.endpoint)
    IN  IF parsed.ok
        THEN [pool EXCEPT !.latency = Some(measure_latency(n, parsed.hostname, parsed.port)),
                          !.port = Some(parsed.port),
                          !.last_tested = Some(Now)]
        ELSE [pool EXCEPT !.latency = Some(inf), !.port = Some(0),
                          !.last_tested = Some(Now)]

\* measure_pools run alone: whether it raises, the list it returns, the
\* file it leaves and the number of calls of measure_latency.  write says
\* how the save at its end goes: "ok"; "temp_file", the temporary file
\* cannot be written; "replace", os.replace fails; "verify", the read that
\* verifies the renamed file fails.  The file is
\* replaced once os.replace has succeeded.  "import os" inside the try
\* makes os a local name: when the temporary file cannot be written the
\* import has not run, and the handler's os.path.exists raises
\* UnboundLocalError instead of returning updated_pools.
measure_pools(file, n, write) ==
    IF ~file.valid
    THEN [raised |-> FALSE, pools |-> <<>>, file |-> file, probes |-> 0]
    ELSE LET updated_pools == [i \in 1..Len(file.rows) |-> measure_pool(n, file.rows[i])]
         IN  [raised |-> write = "temp_file",
              pools |-> IF write = "temp_file" THEN <<>> ELSE updated_pools,
              file |-> IF write \in {"ok", "verify"}
                       THEN [valid |-> TRUE, rows |-> updated_pools]
                       ELSE file,
              probes |-> Cardinality({i \in 1..Len(file.rows) :
                                         parse_endpoint(file.rows[i].endpoint).ok})]

\* sorted(..., key=latency): stable, rows of equal latency keep their order.
RECURSIVE sorted(_)
sorted(rows) ==
    IF rows = <<>> THEN <<>>
    ELSE LET head == sorted(SubSeq(rows, 1, Len(rows) - 1))
             last == rows[Len(rows)]
             k == Cardinality({i \in 1..Len(head) : LatencyOf(head[i]) <= LatencyOf(last)})
         IN  SubSeq(head, 1, k) \o <<last>> \o SubSeq(head, k + 1, Len(head))

Finite(pool) == LatencyOf(pool) # inf

\* The first two of a list.
FirstTwo(rows) == SubSeq(rows, 1, Min(2, Len(rows)))

\* select keeping the unreachable rows.
select_unfiltered(pools) ==
    LET sorted_pools == FirstTwo(sorted(pools))
    IN  IF sorted_pools = <<>> THEN <<>>
        ELSE IF Len(sorted_pools) < 2 THEN sorted_pools \o <<sorted_pools[1]>>
        ELSE sorted_pools

\* select taking the rows in the order of the catalog.
select_unsorted(pools) ==
    LET sorted_pools == FirstTwo(SelectSeq(pools, Finite))
    IN  IF sorted_pools = <<>> THEN <<>>
        ELSE IF Len(sorted_pools) < 2 THEN sorted_pools \o <<sorted_pools[1]>>
        ELSE sorted_pools

\* select returning a single row as it is.
select_no_duplicate(pools) == FirstTwo(sorted(SelectSeq(pools, Finite)))

\* get_fastest_pools, the selection: the rows of finite latency, sorted by
\* latency, the first two; none gives [], a single one is duplicated.
select(pools) ==
    LET sorted_pools == FirstTwo(sorted(SelectSeq(pools, Finite)))
    IN  IF sorted_pools = <<>> THEN <<>>
        ELSE IF Len(sorted_pools) < 2 THEN sorted_pools \o <<sorted_pools[1]>>
        ELSE sorted_pools

\* user_config.get(key, default) on the loaded user.yaml ({} when the file
\* is missing or empty).
Get(user_config, key, default) ==
    IF user_config[key] # None THEN user_config[key][1] ELSE default

\* get_fastest_pools, the users of the two entries: the given ones, else
\* the defaults of user.yaml.
resolve_users(stratum_user, fallback_stratum_user, user_config) ==
    LET from_file == stratum_user = None \/ fallback_stratum_user = None
        default_stratum_user ==
            IF from_file THEN Get(user_config, "stratumUser", "") ELSE stratum_user[1]
        default_fallback_user ==
            IF from_file
            THEN Get(user_config, "fallbackStratumUser", default_stratum_user)
            ELSE fallback_stratum_user[1]
    IN  [primary |-> IF stratum_user # None THEN stratum_user[1] ELSE default_stratum_user,
         backup |-> IF fallback_stratum_user # None THEN fallback_stratum_user[1]
                    ELSE default_fallback_user]

\* get_fastest_pools(yaml_file, stratum_user, fallback_stratum_user,
\* user_yaml, force_measure, latency_expiry_minutes): the list returned,
\* with the rows it selected from, the file it leaves and the number of
\* latency measurements it made.
get_fastest_pools(file, n, stratum_user, fallback_stratum_user, user_config, force_measure, expiry, write) ==
    LET loaded == load_pools(file)
        measuring == need_measure(loaded, force_measure, expiry)
        measured == measure_pools(file, n, write)
        pools == IF measuring THEN measured.pools ELSE loaded
        sorted_pools == select(pools)
        users == resolve_users(stratum_user, fallback_stratum_user, user_config)
    IN  [result |-> [i \in 1..Len(sorted_pools) |->
                        [endpoint |-> sorted_pools[i].endpoint,
                         port |-> sorted_pools[i].port,
                         latency |-> sorted_pools[i].latency,
                         last_tested |-> sorted_pools[i].last_tested,
                         user |-> IF i = 1 THEN users.primary ELSE users.backup]],
         raised |-> measuring /\ measured.raised,
         measuring |-> measuring,
         pools |-> pools,
         file |-> IF measuring THEN measured.file ELSE file,
         probes |-> IF measuring THEN measured.probes ELSE 0]

\* get_top_pools, one override: the stratum_info entry of a configured
\* PRIMARY_STRATUM / BACKUP_STRATUM, none when it is not configured.
override(configured) ==
    IF configured = None THEN <<>>
    ELSE LET parsed == parse_endpoint(configured[1])
         IN  <<[endpoint |-> parsed.hostname, port |-> parsed.port]>>

\* get_top_pools, the loop over the catalog: the host and port a row is
\* measured at.  A row without a "port" key is parsed; a row with one gives
\* its endpoint string as the host name.
probe_target(pool) ==
    IF pool.port = None
    THEN parse_endpoint(pool.endpoint)
    ELSE [ok |-> TRUE, hostname |-> pool.endpoint, port |-> pool.port[1]]

\* get_top_pools: the measured rows sorted by latency, those below inf, the
\* first 2 - len(stratum_info) of them.
top_auto(results, slots) ==
    LET reachable == SelectSeq(sorted(results), Finite)
    IN  SubSeq(reachable, 1, Min(slots, Len(reachable)))

\* get_top_pools(config, pools_file).  raised: a ValueError of an override's
\* parse_endpoint leaves the function; an exception in the automatic part
\* is logged and the overrides alone are returned.
get_top_pools(config, file, n) ==
    LET bad(configured) == configured # None /\ ~parse_endpoint(configured[1]).ok
        raised == bad(config.PRIMARY_STRATUM) \/ bad(config.BACKUP_STRATUM)
        stratum_info == IF raised THEN <<>>
                        ELSE override(config.PRIMARY_STRATUM) \o override(config.BACKUP_STRATUM)
        auto_pools == load_pools(file)
        failed == \E i \in 1..Len(auto_pools) : ~probe_target(auto_pools[i]).ok
        results == [i \in 1..Len(auto_pools) |->
                      LET target == probe_target(auto_pools[i])
                      IN  [endpoint |-> target.hostname, port |-> target.port,
                           latency |-> Some(measure_latency(n, target.hostname, target.port))]]
        fill == Len(stratum_info) < 2 /\ ~raised
        auto == IF fill /\ ~failed THEN top_auto(results, 2 - Len(stratum_info)) ELSE <<>>
        all == stratum_info \o [i \in 1..Len(auto) |->
                                   [endpoint |-> auto[i].endpoint, port |-> auto[i].port]]
    IN  [raised |-> raised,
         result |-> FirstTwo(all),
         auto |-> auto,
         measured |-> IF fill /\ ~failed THEN results ELSE <<>>]

(***************************************************************************)
(* Calls of the pool selectors on sampled catalogs, networks and           *)
(* arguments.                                                              *)
(***************************************************************************)

\* latency_expiry_minutes, the default of get_fastest_pools
latency_expiry_minutes == 15

\* The endpoint strings of the catalog: "stratum+tcp://a:3333", "b:3333",
\* "stratum+tcp://c:4444" and the bare host name "d".
Text3333 == <<"3", "3", "3", "3">>
Text4444 == <<"4", "4", "4", "4">>
EndpointA == Endpoint(TRUE, "a", Some(Text3333))
EndpointB == Endpoint(FALSE, "b", Some(Text3333))
EndpointC == Endpoint(TRUE, "c", Some(Text4444))
EndpointD == Endpoint(FALSE, "d", None)

\* A row as written by hand: the endpoint alone.
Unmeasured(e) == [endpoint |-> e, port |-> None, latency |-> None, last_tested |-> None]

\* A row as measure_pools writes it.
Measured(e, port, latency, tested) ==
    [endpoint |-> e, port |-> Some(port), latency |-> Some(latency),
     last_tested |-> Some(tested)]

Fresh == [valid |-> TRUE, age |-> latency_expiry_minutes]
Stale == [valid |-> TRUE, age |-> latency_expiry_minutes + 1]
Garbled == [valid |-> FALSE, age |-> 0]

\* The rows a parsable endpoint can have in the catalog.
RowsOf(e) ==
    {Unmeasured(e)}
    \cup {Measured(e, parse_endpoint(e).port, l, Fresh) : l \in {25, 40, inf}}
    \cup {Measured(e, parse_endpoint(e).port, 25, Stale),
          Measured(e, parse_endpoint(e).port, 40, Garbled)}

\* The rows of the bare host name: with or without a port key, or as
\* measure_pools leaves it (no port to parse: inf and port 0).
RowsOfD ==
    {Unmeasured(EndpointD),
     [Unmeasured(EndpointD) EXCEPT !.port = Some(3333)],
     Measured(EndpointD, 0, inf, Fresh)}

Catalogs ==
    {[valid |-> FALSE, rows |-> <<>>], [valid |-> TRUE, rows |-> <<>>]}
    \cup {[valid |-> TRUE, rows |-> <<a>>] : a \in RowsOf(EndpointA)}
    \cup {[valid |-> TRUE, rows |-> <<a, b>>] :
            a \in RowsOf(EndpointA), b \in RowsOf(EndpointB)}
    \cup {[valid |-> TRUE, rows |-> <<a, b, c>>] :
            a \in RowsOf(EndpointA), b \in RowsOf(EndpointB),
            c \in RowsOf(EndpointC) \cup RowsOfD}

\* Five connection attempts to a host: all answered in l ms, three of the
\* five, two of the five, none.
Up(l) == <<l, l, l, l, l>>
Flaky(l) == <<l, inf, l, inf, l>>
Lossy(l) == <<inf, l, inf, l, inf>>
Down == Up(inf)

Networks ==
    {[a |-> Up(10), b |-> Up(30), c |-> Up(20), d |-> Up(5)],
     [a |-> Up(30), b |-> Up(10), c |-> Flaky(20), d |-> Up(5)],
     [a |-> Down, b |-> Up(30), c |-> Lossy(20), d |-> Up(5)],
     [a |-> Down, b |-> Down, c |-> Up(20), d |-> Up(5)],
     [a |-> Down, b |-> Down, c |-> Down, d |-> Down],
     [a |-> Up(20), b |-> Up(20), c |-> Up(20), d |-> Up(20)]}

\* --stratum-user style arguments: not given, or given.
StratumUsers == {None, Some("X")}
FallbackUsers == {None, Some("Z")}

\* user.yaml: missing or empty, stratumUser alone, both keys with an empty
\* or a set fallbackStratumUser.
UserConfigs ==
    {[stratumUser |-> None, fallbackStratumUser |-> None],
     [stratumUser |-> Some("Y"), fallbackStratumUser |-> None],
     [stratumUser |-> Some("Y"), fallbackStratumUser |-> Some("")],
     [stratumUser |-> Some("Y"), fallbackStratumUser |-> Some("W")]}

\* PRIMARY_STRATUM / BACKUP_STRATUM of the configuration: absent, an
\* endpoint of the catalog, another endpoint, an endpoint without a port.
Configs ==
    {[PRIMARY_STRATUM |-> p, BACKUP_STRATUM |-> b] :
        p \in {None, Some(EndpointA), Some(Endpoint(TRUE, "x", Some(Text3333)))},
        b \in {None, Some(EndpointB), Some(EndpointD)}}

\* The tuner does not run while the selectors are examined.
TunerIdle ==
    /\ kind = "adjust"
    /\ cfg = ConfigOf(kind)
    /\ current_voltage = DEFAULTS.INITIAL_VOLTAGE
    /\ current_frequency = DEFAULTS.INITIAL_FREQUENCY
    /\ last_hashrate = None
    /\ drop_count = 0
    /\ stagnation_count = 0
    /\ pid_loaded = FALSE
    /\ info = None
    /\ dec = NoDecision
    /\ pc = "pools"
    /\ hw = None
    /\ snapshot = None
    /\ NoSignal

InitPools ==
    /\ TunerIdle
    /\ NoFiles
    /\ catalog \in Catalogs
    /\ net \in Networks
    /\ call \in {[fn |-> "get_fastest_pools", stage |-> "args",
                  stratum_user |-> u, fallback_stratum_user |-> f,
                  user_config |-> uc, force_measure |-> force] :
                     u \in StratumUsers, f \in FallbackUsers,
                     uc \in UserConfigs, force \in BOOLEAN}
             \cup {[fn |-> "get_top_pools", stage |-> "args", config |-> c] :
                     c \in Configs}

\* get_fastest_pools runs; saving the catalog succeeds or fails.
CallGetFastestPools ==
    /\ call.fn = "get_fastest_pools" /\ call.stage = "args"
    /\ \E write \in {"ok", "temp_file", "replace", "verify"} :
          LET r == get_fastest_pools(catalog, net, call.stratum_user,
                                     call.fallback_stratum_user, call.user_config,
                                     call.force_measure, latency_expiry_minutes, write)
          IN  /\ call' = [fn |-> call.fn,
                          stage |-> IF r.raised THEN "raised" ELSE "done",
                          measuring |-> r.measuring,
                          write |-> IF r.measuring THEN write ELSE "none",
                          stratum_user |-> call.stratum_user,
                          fallback_stratum_user |-> call.fallback_stratum_user,
                          user_config |-> call.user_config,
                          force_measure |-> call.force_measure,
                          before |-> load_pools(catalog),
                          pools |-> r.pools, result |-> r.result, probes |-> r.probes]
              /\ catalog' = r.file
    /\ UNCHANGED net
    /\ UNCHANGED <<tunevars, filevars, runvars>>

\* get_top_pools runs.
CallGetTopPools ==
    /\ call.fn = "get_top_pools" /\ call.stage = "args"
    /\ LET r == get_top_pools(call.config, catalog, net)
       IN  call' = [fn |-> call.fn, stage |-> "done", config |-> call.config,
                    raised |-> r.raised, result |-> r.result, auto |-> r.auto,
                    measured |-> r.measured]
    /\ UNCHANGED <<catalog, net>>
    /\ UNCHANGED <<tunevars, filevars, runvars>>

NextPools ==
    \/ CallGetFastestPools
    \/ CallGetTopPools

SpecPools == InitPools /\ [][NextPools]_vars

(***************************************************************************)
(* measure_pools step by step on the files pools.yaml and pools.yaml.tmp,  *)
(* run by processes that share the directory, with a reader calling        *)
(* load_pools.  A file's content is the sequence of the rows written to    *)
(* it; a name refers to an inode, 0 when the name does not exist.          *)
(***************************************************************************)

Writers == {"w1", "w2"}

\* The bytes a write past the end of a truncated file leaves in between.
Hole == Unmeasured(Endpoint(FALSE, "", None))

\* yaml.safe_load of a content: an empty file gives None and a file with
\* a hole does not parse; both are files load_pools returns [] for.
FileOf(content) ==
    [valid |-> content # <<>> /\ \A i \in 1..Len(content) : content[i] # Hole,
     rows |-> content]

\* f.write at position pos of a file
WriteAt(content, pos, row) ==
    IF pos <= Len(content) THEN [content EXCEPT ![pos] = row]
    ELSE content \o [i \in 1..(pos - Len(content) - 1) |-> Hole] \o <<row>>

\* The catalogs the runs start from, and what the hosts answer meanwhile.
StartCatalogs ==
    {<<Measured(EndpointA, 3333, 25, Stale), Measured(EndpointB, 3333, 40, Stale)>>,
     <<Unmeasured(EndpointA), Unmeasured(EndpointB)>>}
MeasuredNetworks ==
    {[a |-> Up(10), b |-> Up(30)], [a |-> Up(30), b |-> Down]}

Started == [pc |-> "start", pools |-> <<>>, updated_pools |-> <<>>, fd |-> 0, offset |-> 0]

InitCatalog ==
    /\ TunerIdle
    /\ catalog = None /\ net = None /\ call = NoCall
    /\ fs \in {[yaml |-> 1, tmp |-> 0, data |-> <<c>>] : c \in StartCatalogs}
    /\ procs = [w \in Writers |-> Started]
    /\ seen = None

\* measure_pools, lines 128-136: the file is read; [] is returned when it
\* does not hold a list.
WriterRead(w) ==
    /\ procs[w].pc = "start"
    /\ LET file == FileOf(fs.data[fs.yaml])
       IN  procs' = [procs EXCEPT ![w] =
                        IF file.valid
                        THEN [@ EXCEPT !.pc = "measure", !.pools = file.rows]
                        ELSE [@ EXCEPT !.pc = "done"]]
    /\ UNCHANGED <<fs, seen>>
    /\ UNCHANGED <<tunevars, poolvars, runvars>>

\* lines 138-170: every row is measured.
WriterMeasure(w) ==
    /\ procs[w].pc = "measure"
    /\ \E n \in MeasuredNetworks :
          procs' = [procs EXCEPT ![w] =
                       [@ EXCEPT !.pc = "open",
                                 !.updated_pools =
                                     [i \in 1..Len(procs[w].pools) |->
                                         measure_pool(n, procs[w].pools[i])]]]
    /\ UNCHANGED <<fs, seen>>
    /\ UNCHANGED <<tunevars, poolvars, runvars>>

\* line 176, open(temp_file, "w"): the file is created, or truncated when
\* the name exists.
WriterOpenTmp(w) ==
    /\ procs[w].pc = "open"
    /\ IF fs.tmp = 0
       THEN /\ fs' = [fs EXCEPT !.tmp = Len(fs.data) + 1, !.data = Append(@, <<>>)]
            /\ procs' = [procs EXCEPT ![w] =
                            [@ EXCEPT !.pc = "write", !.fd = Len(fs.data) + 1, !.offset = 0]]
       ELSE /\ fs' = [fs EXCEPT !.data[fs.tmp] = <<>>]
            /\ procs' = [procs EXCEPT ![w] =
                            [@ EXCEPT !.pc = "write", !.fd = fs.tmp, !.offset = 0]]
    /\ UNCHANGED seen
    /\ UNCHANGED <<tunevars, poolvars, runvars>>

\* line 177, yaml.safe_dump to the open file: the next row is written at
\* the writer's own position; after the last one the file is closed.
WriterWrite(w) ==
    /\ procs[w].pc = "write"
    /\ LET pos == procs[w].offset + 1
       IN  /\ fs' = [fs EXCEPT !.data[procs[w].fd] =
                        WriteAt(@, pos, procs[w].updated_pools[pos])]
           /\ procs' = [procs EXCEPT ![w] =
                           [@ EXCEPT !.offset = pos,
                                     !.pc = IF pos = Len(procs[w].updated_pools)
                                            THEN "replace" ELSE "write"]]
    /\ UNCHANGED seen
    /\ UNCHANGED <<tunevars, poolvars, runvars>>

\* lines 193-200: writing raises; the temporary file is removed if the
\* name exists and the list is returned.
WriterFail(w) ==
    /\ procs[w].pc = "write"
    /\ fs' = [fs EXCEPT !.tmp = 0]
    /\ procs' = [procs EXCEPT ![w] = [@ EXCEPT !.pc = "done"]]
    /\ UNCHANGED seen
    /\ UNCHANGED <<tunevars, poolvars, runvars>>

\* line 182, os.replace(temp_file, yaml_file); FileNotFoundError when the
\* name is gone (lines 193-200 then find nothing to remove).
WriterReplace(w) ==
    /\ procs[w].pc = "replace"
    /\ IF fs.tmp = 0
       THEN /\ procs' = [procs EXCEPT ![w] = [@ EXCEPT !.pc = "done"]]
            /\ UNCHANGED fs
       ELSE /\ fs' = [fs EXCEPT !.yaml = fs.tmp, !.tmp = 0]
            /\ procs' = [procs EXCEPT ![w] = [@ EXCEPT !.pc = "verify"]]
    /\ UNCHANGED seen
    /\ UNCHANGED <<tunevars, poolvars, runvars>>

\* lines 186-191: the file is read back; a length that differs is only
\* reported, a file that does not parse raises into lines 193-200, which
\* remove the temporary file if the name exists.
WriterVerify(w) ==
    /\ procs[w].pc = "verify"
    /\ LET content == fs.data[fs.yaml]
           raises == \E i \in 1..Len(content) : content[i] = Hole
       IN  fs' = IF raises THEN [fs EXCEPT !.tmp = 0] ELSE fs
    /\ procs' = [procs EXCEPT ![w] = [@ EXCEPT !.pc = "done"]]
    /\ UNCHANGED seen
    /\ UNCHANGED <<tunevars, poolvars, runvars>>

\* A reader calls load_pools.
ReaderLoad ==
    /\ seen' = Some(load_pools(FileOf(fs.data[fs.yaml])))
    /\ UNCHANGED <<fs, procs>>
    /\ UNCHANGED <<tunevars, poolvars, runvars>>

NextCatalog ==
    \/ \E w \in Writers : WriterRead(w)
    \/ \E w \in Writers : WriterMeasure(w)
    \/ \E w \in Writers : WriterOpenTmp(w)
    \/ \E w \in Writers : WriterWrite(w)
    \/ \E w \in Writers : WriterFail(w)
    \/ \E w \in Writers : WriterReplace(w)
    \/ \E w \in Writers : WriterVerify(w)
    \/ ReaderLoad

SpecCatalog == InitCatalog /\ [][NextCatalog]_vars

(***************************************************************************)
(* parse_endpoint on its own: every endpoint string of a scheme or none, a *)
(* host name or none, and no ":" or a ":" followed by a text of up to      *)
(* MaxPortLen characters.                                                  *)
(***************************************************************************)

MaxPortLen == 3
PortChars == {"0", "3", "x"}

RECURSIVE Texts(_)
Texts(n) ==
    IF n = 0 THEN {<<>>}
    ELSE Texts(n - 1) \cup {Append(t, c) : t \in Texts(n - 1), c \in PortChars}

EndpointStrings ==
    {Endpoint(scheme, host, port) :
        scheme \in BOOLEAN, host \in {"", "a", "solo.ckpool.org"},
        port \in {None} \cup {Some(t) : t \in Texts(MaxPortLen)}}

InitParse ==
    /\ TunerIdle
    /\ NoFiles
    /\ catalog = None
    /\ net = None
    /\ call \in {[fn |-> "parse_endpoint", stage |-> "args", endpoint_str |-> e] :
                    e \in EndpointStrings}

CallParseEndpoint ==
    /\ call.fn = "parse_endpoint" /\ call.stage = "args"
    /\ call' = [fn |-> call.fn, stage |-> "done", endpoint_str |-> call.endpoint_str,
                result |-> parse_endpoint(call.endpoint_str)]
    /\ UNCHANGED <<tunevars, catalog, net, filevars, runvars>>

NextParse == CallParseEndpoint

SpecParse == InitParse /\ [][NextParse]_vars

(***************************************************************************)
(* BitaxeAPIClient.restart (implementations.py).  What the device does is  *)
(* an input: the outcome of the POST and the outcomes of the GETs that     *)
(* follow, each an HTTP response or an exception of the connection pool.   *)
(***************************************************************************)

Response(status, body) == [kind |-> "response", status |-> status, body |-> body]
Raised(exception) == [kind |-> exception]

\* json.loads of a body: the empty object, or an object with keys
EmptyObject == "{}"
SystemInfo == "{hashRate, temp, ...}"

\* BitaxeAPIClient.get_system_info: the decoded body of a 200 response,
\* None for another status and for every exception.
BitaxeAPIClient_get_system_info(reply) ==
    IF reply.kind = "response" /\ reply.status = 200 THEN Some(reply.body) ELSE None

\* The truth value of what get_system_info returns: None and {} are false.
Truthy(value) == value # None /\ value[1] # EmptyObject

\* range(3): the polls after a restart
RestartPolls == 3

\* restart, the loop run to its end without a truthy answer returning True.
RECURSIVE poll_assumes_restarted(_, _)
poll_assumes_restarted(replies, i) ==
    IF i > RestartPolls THEN [returned |-> TRUE, polls |-> RestartPolls]
    ELSE IF Truthy(BitaxeAPIClient_get_system_info(replies[i]))
         THEN [returned |-> TRUE, polls |-> i]
         ELSE poll_assumes_restarted(replies, i + 1)

\* restart, the loop "for _ in range(3)": True at the first poll with a
\* truthy answer, False after the last; polls counts the GETs made.
RECURSIVE poll(_, _)
poll(replies, i) ==
    IF i > RestartPolls THEN [returned |-> FALSE, polls |-> RestartPolls]
    ELSE IF Truthy(BitaxeAPIClient_get_system_info(replies[i]))
         THEN [returned |-> TRUE, polls |-> i]
         ELSE poll(replies, i + 1)

\* restart(): a status other than 200 and every exception give False
\* without a poll.
restart(post, replies) ==
    IF post.kind = "response"
    THEN IF post.status = 200 THEN poll(replies, 1)
         ELSE [returned |-> FALSE, polls |-> 0]
    ELSE [returned |-> FALSE, polls |-> 0]

\* The outcomes of the POST, and of each of the MaxReplies GETs the device
\* is ready to answer.
MaxReplies == 4
PostOutcomes ==
    {Response(200, EmptyObject), Response(404, EmptyObject), Response(500, EmptyObject),
     Raised("MaxRetryError"), Raised("TimeoutError")}
GetOutcomes ==
    {Response(200, SystemInfo), Response(200, EmptyObject), Response(503, SystemInfo),
     Raised("MaxRetryError"), Raised("TimeoutError")}

InitRestart ==
    /\ TunerIdle
    /\ NoFiles
    /\ catalog = None
    /\ net = None
    /\ call \in {[fn |-> "restart", stage |-> "args", post |-> p, replies |-> r] :
                    p \in PostOutcomes, r \in [1..MaxReplies -> GetOutcomes]}

CallRestart ==
    /\ call.fn = "restart" /\ call.stage = "args"
    /\ LET r == restart(call.post, call.replies)
       IN  call' = [fn |-> call.fn, stage |-> "done", post |-> call.post,
                    replies |-> call.replies, returned |-> r.returned, polls |-> r.polls]
    /\ UNCHANGED <<tunevars, catalog, net, filevars, runvars>>

NextRestart == CallRestart

SpecRestart == InitRestart /\ [][NextRestart]_vars

(***************************************************************************)
(* main() of bitaxepid.py from the construction of the use case to the     *)
(* exit of the process, statement by statement where a SIGINT can tell the *)
(* difference: handle_sigint runs between two statements of the loop.      *)
(* pc is "construct" before TuneBitaxeUseCase(...), "while" at the loop    *)
(* test (and in the sleep before it), "fetch", "adjust", "apply" and       *)
(* "persist" inside an iteration, "finally" when start() has returned or   *)
(* raised, "exited" at the end and "aborted" when the constructor raised.  *)
(***************************************************************************)

\* A save that leaves an existing snapshot file alone.
save_keeps_existing(file, voltage, frequency, write_ok) ==
    IF write_ok /\ file = None
    THEN Some([voltage |-> voltage, frequency |-> frequency]) ELSE file

\* JsonSnapshotManager.save: the file holds the point when the write
\* succeeds; an exception is logged and the file is as it was.
save(file, voltage, frequency, write_ok) ==
    IF write_ok THEN Some([voltage |-> voltage, frequency |-> frequency]) ELSE file

\* The SIGINTs sent to one run.
MaxSignals == 2

\* What main() is started with: the configured overrides, pools.yaml and
\* the network.  Both pools answer; none answers; the catalog is empty; the
\* configured backup has no port.
NoOverride == [PRIMARY_STRATUM |-> None, BACKUP_STRATUM |-> None]
TwoRows == [valid |-> TRUE, rows |-> <<Unmeasured(EndpointA), Unmeasured(EndpointB)>>]
Startups ==
    {[config |-> NoOverride, catalog |-> TwoRows,
      net |-> [a |-> Up(10), b |-> Up(30)]],
     [config |-> NoOverride, catalog |-> TwoRows,
      net |-> [a |-> Down, b |-> Down]],
     [config |-> NoOverride, catalog |-> [valid |-> TRUE, rows |-> <<>>],
      net |-> [a |-> Up(10), b |-> Up(30)]],
     [config |-> [NoOverride EXCEPT !.BACKUP_STRATUM = Some(EndpointD)],
      catalog |-> TwoRows, net |-> [a |-> Up(10), b |-> Up(30)]]}

\* The run is one of "--temp-watch" with a configuration file that narrows
\* the envelope to three voltages and two frequencies.  The strategy looks
\* at the temperature alone: one hashrate and one power are read.
RunConfig == [ConfigOf("temp_watch") EXCEPT !.min_voltage = 1180, !.min_frequency = 475]
RunHashrates == {DEFAULTS.HASHRATE_SETPOINT}
RunPowers == {16125}

InitRun ==
    /\ kind = "temp_watch"
    /\ cfg = RunConfig
    /\ current_voltage = DEFAULTS.INITIAL_VOLTAGE
    /\ current_frequency = DEFAULTS.INITIAL_FREQUENCY
    /\ last_hashrate = None
    /\ drop_count = 0
    /\ stagnation_count = 0
    /\ pid_loaded = FALSE
    /\ info = None
    /\ dec = NoDecision
    /\ pc = "construct"
    /\ hw = None
    /\ snapshot = None
    /\ \E s \in Startups :
          /\ catalog = s.catalog
          /\ net = s.net
          /\ call = [fn |-> "get_top_pools", stage |-> "args", config |-> s.config]
    /\ NoFiles
    /\ NoSignal

\* A constructor that gives up when get_top_pools returns no pool.
Construct_requires_pool ==
    /\ pc = "construct"
    /\ LET r == get_top_pools(call.config, catalog, net)
       IN  /\ call' = [fn |-> call.fn, stage |-> "done", config |-> call.config,
                       raised |-> r.raised, result |-> r.result, auto |-> r.auto,
                       measured |-> r.measured]
           /\ IF r.raised \/ r.result = <<>>
              THEN pc' = "aborted" /\ hw' = hw
              ELSE /\ pc' = "while"
                   /\ \E sent_ok \in BOOLEAN :
                         hw' = IF sent_ok
                               THEN Some(set_settings(cfg, current_voltage, current_frequency))
                               ELSE hw
    /\ UNCHANGED <<kind, cfg, current_voltage, current_frequency, last_hashrate,
                   drop_count, stagnation_count, pid_loaded, info, dec, snapshot>>
    /\ UNCHANGED <<catalog, net, filevars, runvars>>

\* TuneBitaxeUseCase.__init__: stratum_info is what get_top_pools returns,
\* whatever it holds, and the initial point is sent to the device; a
\* ValueError of get_top_pools leaves main().  main() then installs
\* handle_sigint and calls start().
Construct ==
    /\ pc = "construct"
    /\ LET r == get_top_pools(call.config, catalog, net)
       IN  /\ call' = [fn |-> call.fn, stage |-> "done", config |-> call.config,
                       raised |-> r.raised, result |-> r.result, auto |-> r.auto,
                       measured |-> r.measured]
           /\ IF r.raised
              THEN pc' = "aborted" /\ hw' = hw
              ELSE /\ pc' = "while"
                   /\ \E sent_ok \in BOOLEAN :
                         hw' = IF sent_ok
                               THEN Some(set_settings(cfg, current_voltage, current_frequency))
                               ELSE hw
    /\ UNCHANGED <<kind, cfg, current_voltage, current_frequency, last_hashrate,
                   drop_count, stagnation_count, pid_loaded, info, dec, snapshot>>
    /\ UNCHANGED <<catalog, net, filevars, runvars>>

\* A loop test that does not look at running.
While_ignores_running ==
    /\ pc = "while"
    /\ pc' = "fetch"
    /\ events' = <<>>
    /\ info' = None
    /\ UNCHANGED <<kind, cfg, current_voltage, current_frequency, last_hashrate,
                   drop_count, stagnation_count, pid_loaded, dec, hw, snapshot>>
    /\ UNCHANGED <<poolvars, filevars, running, signals, saved>>

\* "while self.running:" (after the sleep that ends an iteration).
While ==
    /\ pc = "while"
    /\ pc' = IF running THEN "fetch" ELSE "finally"
    /\ events' = <<>>
    /\ info' = None
    /\ UNCHANGED <<kind, cfg, current_voltage, current_frequency, last_hashrate,
                   drop_count, stagnation_count, pid_loaded, dec, hw, snapshot>>
    /\ UNCHANGED <<poolvars, filevars, running, signals, saved>>

\* Lines 633-643 with telemetry that is read, logged and shown.
Read ==
    /\ pc = "fetch"
    /\ \E t \in {None} \cup {Some(x) : x \in TempReadings(cfg)},
          h \in RunHashrates, p \in RunPowers :
          /\ (kind = "adjust" /\ stagnated(last_hashrate, h))
                => stagnation_count < MaxStagnation
          /\ info' = Some([temp |-> t, hashRate |-> h, power |-> p])
    /\ dec' = NoDecision
    /\ events' = Append(events, "read")
    /\ pc' = "adjust"
    /\ UNCHANGED <<kind, cfg, current_voltage, current_frequency, last_hashrate,
                   drop_count, stagnation_count, pid_loaded, hw, snapshot>>
    /\ UNCHANGED <<poolvars, filevars, running, signals, saved>>

\* Lines 633-636: get_system_info() returns None; sleep, continue.
ReadFail ==
    /\ pc = "fetch"
    /\ dec' = NoDecision
    /\ pc' = "while"
    /\ UNCHANGED <<kind, cfg, current_voltage, current_frequency, last_hashrate,
                   drop_count, stagnation_count, pid_loaded, info, hw, snapshot>>
    /\ UNCHANGED <<poolvars, filevars, runvars>>

\* Lines 637-643 raise: float() of a "temp" that is no number (null, a
\* text), CSVLogger.log failing to open or write its file, the presenter
\* formatting a value of the wrong type.  start() has no handler: the
\* exception reaches "except Exception" of main().
ReadRaises ==
    /\ pc = "fetch"
    /\ dec' = NoDecision
    /\ pc' = "finally"
    /\ UNCHANGED <<kind, cfg, current_voltage, current_frequency, last_hashrate,
                   drop_count, stagnation_count, pid_loaded, info, hw, snapshot>>
    /\ UNCHANGED <<poolvars, filevars, runvars>>

\* Lines 644-645: the strategy decides and the new voltage is stored.
Adjust ==
    /\ pc = "adjust"
    /\ \E fo \in FreqOutputs(cfg), vo \in VoltOutputs(cfg) :
          LET r == IF kind = "adjust"
                   THEN adjust(cfg, TrendState, current_voltage, current_frequency,
                               TempOf(info[1]), info[1].hashRate, info[1].power, fo, vo)
                   ELSE TempWatchAdjust(cfg, TrendState, current_voltage,
                                        current_frequency, TempOf(info[1]))
          IN  /\ current_voltage' = r.voltage
              /\ last_hashrate' = r.last_hashrate
              /\ drop_count' = r.drop_count
              /\ stagnation_count' = r.stagnation_count
              /\ pid_loaded' = r.pid_loaded
              /\ dec' = Decision(r, TempOf(info[1]), info[1].hashRate, info[1].power)
    /\ events' = Append(events, "decide")
    /\ pc' = "apply"
    /\ UNCHANGED <<kind, cfg, current_frequency, info, hw, snapshot>>
    /\ UNCHANGED <<poolvars, filevars, running, signals, saved>>

\* set_settings called only for a point that differs from the one the
\* iteration began with.
SetSettings_only_on_change ==
    /\ pc = "apply"
    /\ LET sent == set_settings(cfg, current_voltage, dec.frequency)
           changed == dec.voltage # dec.in_voltage \/ dec.frequency # dec.in_frequency
       IN  /\ current_frequency' = IF changed THEN sent.frequency ELSE current_frequency
           /\ \E sent_ok \in BOOLEAN :
                 hw' = IF changed /\ sent_ok THEN Some(sent) ELSE hw
           /\ events' = IF changed THEN Append(events, "apply") ELSE events
    /\ pc' = "persist"
    /\ UNCHANGED <<kind, cfg, current_voltage, last_hashrate, drop_count,
                   stagnation_count, pid_loaded, info, dec, snapshot>>
    /\ UNCHANGED <<poolvars, filevars, running, signals, saved>>

\* Line 646: set_settings sends the point, changed or not; a failed PATCH
\* is logged inside set_settings, which returns the frequency all the same.
SetSettings ==
    /\ pc = "apply"
    /\ LET sent == set_settings(cfg, current_voltage, dec.frequency)
       IN  /\ current_frequency' = sent.frequency
           /\ \E sent_ok \in BOOLEAN : hw' = IF sent_ok THEN Some(sent) ELSE hw
    /\ events' = Append(events, "apply")
    /\ pc' = "persist"
    /\ UNCHANGED <<kind, cfg, current_voltage, last_hashrate, drop_count,
                   stagnation_count, pid_loaded, info, dec, snapshot>>
    /\ UNCHANGED <<poolvars, filevars, running, signals, saved>>

\* Lines 647-648: the snapshot is written, changed or not; sleep.
Save ==
    /\ pc = "persist"
    /\ \E write_ok \in BOOLEAN :
          /\ snapshot' = save(snapshot, current_voltage, current_frequency, write_ok)
          /\ saved' = Some(write_ok)
    /\ events' = Append(events, "persist")
    /\ pc' = "while"
    /\ UNCHANGED <<kind, cfg, current_voltage, current_frequency, last_hashrate,
                   drop_count, stagnation_count, pid_loaded, info, dec, hw>>
    /\ UNCHANGED <<poolvars, filevars, running, signals>>

\* handle_sigint, run between two statements of main(): stop() clears
\* running and writes the snapshot of the point as it is stored then.
\* Inside an iteration the write is one more event of it.
HandleSigint ==
    /\ pc \in {"while", "fetch", "adjust", "apply", "persist", "finally"}
    /\ signals < MaxSignals
    /\ signals' = signals + 1
    /\ running' = FALSE
    /\ \E write_ok \in BOOLEAN :
          /\ snapshot' = save(snapshot, current_voltage, current_frequency, write_ok)
          /\ saved' = Some(write_ok)
    /\ events' = IF pc \in {"fetch", "adjust", "apply", "persist"}
                 THEN Append(events, "persist") ELSE events
    /\ UNCHANGED <<kind, cfg, current_voltage, current_frequency, last_hashrate,
                   drop_count, stagnation_count, pid_loaded, info, dec, pc, hw>>
    /\ UNCHANGED <<poolvars, filevars>>

\* "finally: use_case.stop()", then the process ends.
Finally ==
    /\ pc = "finally"
    /\ running' = FALSE
    /\ \E write_ok \in BOOLEAN :
          /\ snapshot' = save(snapshot, current_voltage, current_frequency, write_ok)
          /\ saved' = Some(write_ok)
    /\ pc' = "exited"
    /\ UNCHANGED <<kind, cfg, current_voltage, current_frequency, last_hashrate,
                   drop_count, stagnation_count, pid_loaded, info, dec, hw>>
    /\ UNCHANGED <<poolvars, filevars, signals, events>>

\* The statements of the main thread once start() is called.
MainThread ==
    \/ While
    \/ Read
    \/ ReadFail
    \/ ReadRaises
    \/ Adjust
    \/ SetSettings
    \/ Save
    \/ Finally

NextRun ==
    \/ Construct
    \/ While
    \/ Read
    \/ ReadFail
    \/ ReadRaises
    \/ Adjust
    \/ SetSettings
    \/ Save
    \/ Finally
    \/ HandleSigint

SpecRun == InitRun /\ [][NextRun]_vars

\* Every call of the loop returns (the requests have timeouts, the sleeps
\* end, the handler returns to the statement it interrupted), so the main
\* thread takes its next step; nothing obliges a SIGINT to be sent.
FairRun == SpecRun /\ WF_vars(MainThread)

(***************************************************************************)
(* measure_latency on its own: every sequence of outcomes of its           *)
(* connection attempts to one host.                                        *)
(***************************************************************************)

\* attempts, the default of measure_latency
attempts == 5

\* What one attempt gives: a latency in ms, or inf when it fails.

InitLatency ==
    /\ TunerIdle
    /\ NoFiles
    /\ catalog = None
    /\ net \in {[a |-> s] : s \in [1..attempts -> {10, 30, inf}]}
    /\ call = [fn |-> "measure_latency", stage |-> "args",
               endpoint |-> Hostname("a"), port |-> 3333]

CallMeasureLatency ==
    /\ call.fn = "measure_latency" /\ call.stage = "args"
    /\ call' = [fn |-> call.fn, stage |-> "done", endpoint |-> call.endpoint,
                port |-> call.port,
                result |-> measure_latency(net, call.endpoint, call.port)]
    /\ UNCHANGED <<tunevars, catalog, net, filevars, runvars>>

NextLatency == CallMeasureLatency

SpecLatency == InitLatency /\ [][NextLatency]_vars

(***************************************************************************)
(* BitaxeAPIClient.set_stratum (implementations.py).  The outcome of the   *)
(* PATCH and of the GET that reads the settings back are inputs.  A        *)
(* decoded system info is a function from its keys to the value, None for  *)
(* a key the object does not have.                                         *)
(***************************************************************************)

StratumKeys ==
    {"stratumURL", "stratumPort", "fallbackStratumURL", "fallbackStratumPort",
     "stratumUser", "fallbackStratumUser"}
InfoKeys == StratumKeys \cup {"hashRate"}

\* set_stratum, the body of the PATCH: primary.get("user", "") and
\* backup.get("user", "") give "" for an entry without a user.
settings(primary, backup) ==
    [stratumURL |-> primary.hostname,
     stratumPort |-> primary.port,
     fallbackStratumURL |-> backup.hostname,
     fallbackStratumPort |-> backup.port,
     stratumUser |-> IF primary.user # None THEN primary.user[1] ELSE "",
     fallbackStratumUser |-> IF backup.user # None THEN backup.user[1] ELSE ""]

\* The truth value of a decoded object: {} is false.
NonEmpty(system_info) == \E k \in InfoKeys : system_info[k] # None

\* set_stratum, the all([...]) over the six fields read back.
all_fields(system_info, requested) ==
    \A k \in StratumKeys : system_info[k] = Some(requested[k])

\* set_stratum(primary, backup): False for an exception of the PATCH and
\* for a status other than 200; after a 200, False when the read-back is
\* a non-empty object with a differing field, True otherwise.
set_stratum(primary, backup, patch, reply) ==
    IF patch.kind = "response"
    THEN IF patch.status = 200
         THEN LET system_info == BitaxeAPIClient_get_system_info(reply)
              IN  IF system_info # None /\ NonEmpty(system_info[1])
                     /\ ~all_fields(system_info[1], settings(primary, backup))
                  THEN FALSE
                  ELSE TRUE
         ELSE FALSE
    ELSE FALSE

\* A system info read back, each field as b says: as requested, another
\* value, absent.
InfoOf(requested, b) ==
    [k \in InfoKeys |->
        IF b[k] = "absent" THEN None
        ELSE IF k = "hashRate" THEN Some(500)
        ELSE IF b[k] = "same" THEN Some(requested[k])
        ELSE IF k \in {"stratumPort", "fallbackStratumPort"} THEN Some(1)
        ELSE Some("other")]

ReadBackOutcomes(requested) ==
    {Response(200, InfoOf(requested, b)) :
        b \in {x \in [InfoKeys -> {"same", "other", "absent"}] : x["hashRate"] # "other"}}
    \cup {Response(503, InfoOf(requested, [k \in InfoKeys |-> "same"])),
          Raised("MaxRetryError"), Raised("TimeoutError")}

InitStratum ==
    /\ TunerIdle
    /\ NoFiles
    /\ catalog = None
    /\ net = None
    /\ \E pu \in {None, Some("X")}, bu \in {None, Some("Y")} :
          LET primary == [hostname |-> "a", port |-> 3333, user |-> pu]
              backup == [hostname |-> "b", port |-> 4444, user |-> bu]
          IN  call \in {[fn |-> "set_stratum", stage |-> "args", primary |-> primary,
                         backup |-> backup, patch |-> p, reply |-> r] :
                           p \in {Response(200, EmptyObject), Response(400, EmptyObject),
                                  Raised("MaxRetryError")},
                           r \in ReadBackOutcomes(settings(primary, backup))}

CallSetStratum ==
    /\ call.fn = "set_stratum" /\ call.stage = "args"
    /\ call' = [fn |-> call.fn, stage |-> "done", primary |-> call.primary,
                backup |-> call.backup, patch |-> call.patch, reply |-> call.reply,
                returned |-> set_stratum(call.primary, call.backup, call.patch, call.reply)]
    /\ UNCHANGED <<tunevars, catalog, net, filevars, runvars>>

NextStratum == CallSetStratum

SpecStratum == InitStratum /\ [][NextStratum]_vars

(***************************************************************************)
(* TuneBitaxeUseCase.start() on a device that runs hot: the loop of Spec   *)
(* from points within the envelope, with a narrower envelope and fewer     *)
(* samples, so that whole runs down to the floors can be followed.         *)
(***************************************************************************)

\* An envelope as a configuration file can give it.
HotConfig(k) == [ConfigOf(k) EXCEPT !.min_voltage = 1180, !.min_frequency = 475]

InitHot ==
    /\ kind \in {"adjust", "temp_watch"}
    /\ cfg = HotConfig(kind)
    /\ current_voltage \in {cfg.min_voltage, DEFAULTS.INITIAL_VOLTAGE, cfg.max_voltage}
    /\ current_frequency \in {cfg.min_frequency, DEFAULTS.INITIAL_FREQUENCY, cfg.max_frequency}
    /\ last_hashrate = None
    /\ drop_count = 0
    /\ stagnation_count = 0
    /\ pid_loaded = FALSE
    /\ info = None
    /\ dec = NoDecision
    /\ pc = "fetch"
    /\ hw = Some(set_settings(cfg, current_voltage, current_frequency))
    /\ snapshot = None
    /\ NoPools
    /\ NoSignal

\* info = self.hardware_gateway.get_system_info() answers with a sample
\* that has a temperature.
FetchSample ==
    /\ pc = "fetch"
    /\ \E t \in TempReadings(cfg), h \in {440, 560}, p \in {16125} :
          /\ (kind = "adjust" /\ stagnated(last_hashrate, h))
                => stagnation_count < MaxStagnation
          /\ info' = Some([temp |-> Some(t), hashRate |-> h, power |-> p])
    /\ dec' = NoDecision
    /\ pc' = "adjust"
    /\ UNCHANGED <<kind, cfg, current_voltage, current_frequency, last_hashrate,
                   drop_count, stagnation_count, pid_loaded, hw, snapshot>>
    /\ UNCHANGED <<poolvars, filevars, runvars>>

NextHot ==
    \/ FetchSample
    \/ FetchFail
    \/ CyclePID
    \/ CycleTempWatch

SpecHot == InitHot /\ [][NextHot]_vars

\* "while self.running" with time.sleep(sample_interval) between the
\* iterations: the loop goes on, so a fetch is made again and again and a
\* sample fetched is decided on.  A failed fetch leaves the loop where it
\* was; the fairness on FetchSample says that the device answers in the
\* end.
FairHot ==
    SpecHot /\ WF_vars(FetchSample) /\ WF_vars(CyclePID) /\ WF_vars(CycleTempWatch)

(***************************************************************************)
(* Properties                                                              *)
(***************************************************************************)

\* min <= value <= max and value mod step = 0, on both axes
OnGrid(c, v, f) ==
    /\ c.min_voltage <= v /\ v <= c.max_voltage /\ v % c.voltage_step = 0
    /\ c.min_frequency <= f /\ f <= c.max_frequency /\ f % c.frequency_step = 0

\* The decision was entered with temp > target_temp.
Hot == dec.temp > cfg.target_temp

\* power > 1.075 * power_limit (1.075 = 43/40; power in mW, the limit in W)
OverPower == dec.power * 40 > cfg.power_limit * 43000

\* The decision left the point as it was.
Held == dec.voltage = dec.in_voltage /\ dec.frequency = dec.in_frequency

PIDKinds == {"adjust", "apply_strategy", "normal_mode"}

\* C1: a decision of PIDTuningStrategy (adjust, apply_strategy) entered with
\* a point inside the envelope and on the step grid returns a point inside
\* the envelope and on the step grid; chained decisions therefore never
\* leave the grid.
C1_ReturnedPointOnGrid ==
    (dec.acted /\ kind \in {"adjust", "apply_strategy"}
        /\ OnGrid(cfg, dec.in_voltage, dec.in_frequency))
    => OnGrid(cfg, dec.voltage, dec.frequency)

C1_Witness ==
    /\ dec.acted /\ kind = "apply_strategy"
    /\ OnGrid(cfg, dec.in_voltage, dec.in_frequency)
    /\ dec.branch = "optimize"
    /\ dec.voltage # dec.in_voltage /\ dec.frequency # dec.in_frequency

\* C2: the stored operating point of TuneBitaxeUseCase is always inside the
\* envelope and on the step grid.
C2_StoredPointOnGrid == OnGrid(cfg, current_voltage, current_frequency)

\* C3: a decision entered with temp > target_temp raises neither axis, in
\* every controller.
C3_HotNeverIncreases ==
    (dec.acted /\ Hot)
    => (dec.frequency <= dec.in_frequency /\ dec.voltage <= dec.in_voltage)

C3_Witness ==
    /\ dec.acted /\ kind = "adjust" /\ Hot /\ OverPower
    /\ dec.hashrate < cfg.setpoint
    /\ dec.frequency < dec.in_frequency

\* C4: a decision entered with temp > target_temp and the frequency above
\* its floor returns the frequency one step lower and the voltage unchanged,
\* whatever the power, the hashrate and the trend counters are.
C4_HotStepsFrequencyDown ==
    (dec.acted /\ kind \in PIDKinds /\ Hot /\ dec.in_frequency > cfg.min_frequency)
    => (dec.frequency = dec.in_frequency - cfg.frequency_step
        /\ dec.voltage = dec.in_voltage)

\* C5: a decision entered with temp > target_temp and the frequency at its
\* floor leaves the frequency and returns the voltage one step lower if it
\* is above its floor, unchanged if not.
C5_HotAtFloorStepsVoltageDown ==
    (dec.acted /\ Hot /\ dec.in_frequency = cfg.min_frequency)
    => (dec.frequency = dec.in_frequency
        /\ dec.voltage = IF dec.in_voltage > cfg.min_voltage
                         THEN dec.in_voltage - cfg.voltage_step
                         ELSE dec.in_voltage)

C5_Witness ==
    /\ dec.acted /\ kind = "adjust" /\ Hot
    /\ dec.in_frequency = 400 /\ dec.in_voltage = 1150
    /\ dec.frequency = 400 /\ dec.voltage = 1140

\* C6: the power rule is applied only in decisions with temp <= target_temp:
\* when both constraints are exceeded the temperature rule acts.
C6_TemperatureBeforePower ==
    (dec.acted /\ kind \in PIDKinds /\ dec.branch \in {"power_volt", "power_hold"})
    => ~Hot

\* C7: a decision with temp <= target_temp and power > 1.075 * power_limit
\* returns the voltage one step lower if it is above its floor, unchanged if
\* not, and the frequency unchanged; with power <= 1.075 * power_limit the
\* power rule does not act.
C7_PowerRule ==
    (dec.acted /\ kind \in PIDKinds /\ ~Hot)
    => IF OverPower
       THEN /\ dec.frequency = dec.in_frequency
            /\ dec.voltage = IF dec.in_voltage > cfg.min_voltage
                             THEN dec.in_voltage - cfg.voltage_step
                             ELSE dec.in_voltage
            /\ dec.branch \in {"power_volt", "power_hold"}
       ELSE dec.branch \notin {"power_volt", "power_hold"}

C7_Witness ==
    /\ dec.acted /\ kind = "apply_strategy" /\ ~Hot /\ OverPower
    /\ dec.hashrate < cfg.setpoint
    /\ dec.voltage = dec.in_voltage - cfg.voltage_step
    /\ dec.frequency = dec.in_frequency

\* C8: a decision with temp <= target_temp, power <= 1.075 * power_limit
\* and hashrate >= setpoint returns the point it was entered with.
C8_StableHolds ==
    (dec.acted /\ ~Hot /\ ~OverPower /\ dec.hashrate >= cfg.setpoint)
    => Held

C8_Witness ==
    /\ dec.acted /\ kind = "normal_mode" /\ ~Hot /\ ~OverPower
    /\ dec.hashrate >= cfg.setpoint
    /\ drop_count > 0
    /\ dec.branch = "stable" /\ Held

\* The stagnation threshold: BitaxeTuner resets its PID controllers when
\* stagnation_count >= 3; PIDTuningStrategy has no threshold.
StagnationThreshold == 3

\* C9: in every decision, stagnation_count grows by one if the reading
\* equals the previous one and is 0 if it differs; in the decision where it
\* reaches the threshold the PID accumulators are cleared and the count is
\* reset to 0.
C9_StagnationClearsAccumulators ==
    [][(pc = "adjust" /\ kind = "adjust")
        => LET equal == stagnated(last_hashrate, info[1].hashRate)
               reached == equal /\ stagnation_count + 1 >= StagnationThreshold
           IN  /\ ~equal => stagnation_count' = 0
               /\ (equal /\ ~reached) => stagnation_count' = stagnation_count + 1
               /\ reached => (stagnation_count' = 0 /\ ~pid_loaded')]_vars

\* C10: in the recovery branch (no hard constraint, hashrate below 85% of
\* the setpoint) the voltage moves by at most one step.
C10_RecoveryMovesOneStep ==
    (dec.acted /\ kind \in PIDKinds /\ dec.branch = "optimize"
        /\ dec.hashrate * 100 < 85 * cfg.setpoint)
    => /\ dec.voltage - dec.in_voltage <= cfg.voltage_step
       /\ dec.in_voltage - dec.voltage <= cfg.voltage_step

\* The drop count from which the frequency is stepped down instead of
\* following the PID proposal: 30 in PIDTuningStrategy, 3 in BitaxeTuner.
DropThreshold(k) == IF k = "normal_mode" THEN 3 ELSE 30

\* C11: a decision with no hard constraint exceeded, the hashrate below the
\* setpoint and drop_count at or above the threshold returns the frequency
\* one step lower, clamped at the floor, not the PID proposal.
C11_DampingStepsFrequencyDown ==
    (dec.acted /\ kind \in PIDKinds /\ ~Hot /\ ~OverPower
        /\ dec.hashrate < cfg.setpoint /\ drop_count >= DropThreshold(kind))
    => dec.frequency = Max(cfg.min_frequency, dec.in_frequency - cfg.frequency_step)

\* C12: when the telemetry sample carries no temperature, the temperature
\* the controller is given is above the configured target of the run, and
\* the decision raises neither axis.
C12_MissingTempTreatedAsHot ==
    [][(pc = "adjust" /\ info[1].temp = None)
        => /\ dec'.temp > cfg.target_temp
           /\ dec'.voltage <= dec'.in_voltage
           /\ dec'.frequency <= dec'.in_frequency]_vars

\* The call of the selector fn has returned.
Done(fn) == call.fn = fn /\ call.stage = "done"

\* The positions of the rows of finite latency.
FiniteRows(rows) == {i \in 1..Len(rows) : LatencyOf(rows[i]) # inf}

\* C13: when a row of finite latency exists, neither get_fastest_pools nor
\* the automatic part of get_top_pools returns a row of infinite latency.
C13_NoUnreachablePoolSelected ==
    /\ (Done("get_fastest_pools") /\ FiniteRows(call.pools) # {})
          => \A i \in 1..Len(call.result) : LatencyOf(call.result[i]) < inf
    /\ (Done("get_top_pools") /\ FiniteRows(call.measured) # {})
          => \A i \in 1..Len(call.auto) : LatencyOf(call.auto[i]) < inf

C13_Witness ==
    /\ Done("get_fastest_pools") /\ call.probes = 3
    /\ Cardinality(FiniteRows(call.pools)) = 1
    /\ Len(call.pools) = 3
    /\ Len(call.result) = 2
    /\ LatencyOf(call.result[1]) < inf /\ LatencyOf(call.result[2]) < inf

\* C14: with at least two rows of finite latency, the primary is a row of
\* least latency among them and the backup a row of least latency among
\* the others.
C14_TwoLowestLatencies ==
    (Done("get_fastest_pools") /\ Cardinality(FiniteRows(call.pools)) >= 2)
    => /\ Len(call.result) = 2
       /\ \E p \in FiniteRows(call.pools), b \in FiniteRows(call.pools) :
             /\ p # b
             /\ call.result[1].endpoint = call.pools[p].endpoint
             /\ call.result[1].latency = call.pools[p].latency
             /\ call.result[2].endpoint = call.pools[b].endpoint
             /\ call.result[2].latency = call.pools[b].latency
             /\ \A j \in FiniteRows(call.pools) \ {p} :
                   LatencyOf(call.pools[p]) <= LatencyOf(call.pools[j])
             /\ \A j \in FiniteRows(call.pools) \ {p, b} :
                   LatencyOf(call.pools[b]) <= LatencyOf(call.pools[j])

C14_Witness ==
    /\ Done("get_fastest_pools") /\ Cardinality(FiniteRows(call.pools)) = 3
    /\ call.result[1].endpoint = EndpointB
    /\ call.result[2].endpoint = EndpointC
    /\ LatencyOf(call.pools[1]) > call.result[2].latency[1]

\* The row has a cached latency and a last_tested no older than the expiry.
IsFresh(pool) ==
    /\ pool.latency # None /\ pool.last_tested # None
    /\ pool.last_tested[1].valid
    /\ pool.last_tested[1].age <= latency_expiry_minutes

\* The positions of the fresh rows of finite latency.
FreshFinite(rows) == {i \in 1..Len(rows) : IsFresh(rows[i]) /\ LatencyOf(rows[i]) # inf}

\* The result is the two rows of least latency among the positions S of rows.
TwoLowestOf(rows, S, result) ==
    /\ Len(result) = 2
    /\ \E p \in S, b \in S :
          /\ p # b
          /\ result[1].endpoint = rows[p].endpoint /\ result[1].latency = rows[p].latency
          /\ result[2].endpoint = rows[b].endpoint /\ result[2].latency = rows[b].latency
          /\ \A j \in S \ {p} : LatencyOf(rows[p]) <= LatencyOf(rows[j])
          /\ \A j \in S \ {p, b} : LatencyOf(rows[b]) <= LatencyOf(rows[j])

C16_SingleReachableDuplicated ==
    (Done("get_fastest_pools") /\ Cardinality(FiniteRows(call.pools)) = 1)
    => /\ Len(call.result) = 2
       /\ call.result[2].endpoint = call.result[1].endpoint
       /\ call.result[2].port = call.result[1].port

C16_Witness ==
    /\ Done("get_fastest_pools") /\ call.force_measure /\ call.probes = 3
    /\ Cardinality(FiniteRows(call.pools)) = 1
    /\ Len(call.result) = 2
    /\ call.result[1].endpoint = EndpointC /\ call.result[2].endpoint = EndpointC

\* The (hostname, port) pairs of the rows of finite latency.
ReachableEndpoints(rows) ==
    {<<parse_endpoint(rows[i].endpoint).hostname, parse_endpoint(rows[i].endpoint).port>> :
        i \in {j \in FiniteRows(rows) : parse_endpoint(rows[j].endpoint).ok}}

\* C17: when two different endpoints are reachable, the primary and the
\* backup returned are different endpoints, in get_fastest_pools and in
\* get_top_pools (where the rows are measured at the host and port of
\* their entry).
C17_PrimaryDiffersFromBackup ==
    /\ (Done("get_fastest_pools") /\ Cardinality(ReachableEndpoints(call.pools)) >= 2)
          => /\ Len(call.result) = 2
             /\ parse_endpoint(call.result[1].endpoint) # parse_endpoint(call.result[2].endpoint)
    /\ (Done("get_top_pools") /\ Len(call.result) = 2
          /\ Cardinality({<<call.measured[i].endpoint, call.measured[i].port>> :
                             i \in FiniteRows(call.measured)}) >= 2)
          => <<call.result[1].endpoint, call.result[1].port>>
                # <<call.result[2].endpoint, call.result[2].port>>

\* C20: with no backup user given and a fallbackStratumUser that is absent
\* from user.yaml or empty, the backup's user is the primary's user.
C20_BackupUserFallsBackToPrimary ==
    (Done("get_fastest_pools") /\ Len(call.result) = 2
        /\ call.fallback_stratum_user = None
        /\ call.user_config.fallbackStratumUser \in {None, Some("")})
    => call.result[2].user = call.result[1].user

\* The complete catalogs: the one the runs started from and the lists the
\* writers have measured.
CompleteCatalogs ==
    {fs.data[1]} \cup {procs[w].updated_pools : w \in {x \in Writers : procs[x].updated_pools # <<>>}}

\* C18: what load_pools returns to a concurrent reader is the complete
\* previous catalog or a complete refreshed catalog, never a part of one.
C18_ReaderSeesCompleteCatalog ==
    seen # None => seen[1] \in CompleteCatalogs

\* C19: runs of measure_pools on one catalog file do not overlap: when the
\* writers have finished, the catalog is one writer's complete output (or
\* the previous catalog when no writer replaced it).
C19_SingleWriterOutput ==
    (\A w \in Writers : procs[w].pc = "done")
    => fs.data[fs.yaml] \in CompleteCatalogs

\* C21: get_fastest_pools returns no assignment whose primary or backup
\* user is the empty string.
C21_NoEmptyUserReturned ==
    Done("get_fastest_pools")
    => \A i \in 1..Len(call.result) : call.result[i].user # ""

\* A text int accepts: decimal digits, at least one.
Numeric(text) ==
    /\ text # <<>>
    /\ \A i \in 1..Len(text) : text[i] \in {"0", "1", "2", "3", "4", "5", "6", "7", "8", "9"}

\* C30: parse_endpoint rejects every endpoint string whose host name is
\* empty or whose port is missing or empty, with or without the scheme, and
\* returns (hostname, port) for a non-empty host name and a numeric port.
C30_ParseEndpointRejectsMalformed ==
    Done("parse_endpoint")
    => LET e == call.endpoint_str
       IN  /\ (e.host = "" \/ e.port = None \/ e.port = Some(<<>>)) => ~call.result.ok
           /\ (e.host # "" /\ e.port # None /\ Numeric(e.port[1]))
                 => /\ call.result.ok
                    /\ call.result.hostname = Hostname(e.host)
                    /\ call.result.port = DecimalValue(e.port[1])

\* The device answered a poll: the GET came back with status 200.
Answered(reply) == reply.kind = "response" /\ reply.status = 200

\* C29: restart returns True only if the POST came back with status 200
\* and the device answered one of the first three polls; in every other
\* case it returns False; it never makes more than three polls.
C29_RestartTrueOnlyWhenAnswered ==
    Done("restart")
    => LET accepted == call.post.kind = "response" /\ call.post.status = 200
           answered == \E i \in 1..3 : Answered(call.replies[i])
       IN  /\ call.returned \in BOOLEAN
           /\ call.returned => (accepted /\ answered)
           /\ ~(accepted /\ answered) => ~call.returned
           /\ call.polls <= 3

\* The POST was accepted, no poll was answered, and restart returned False
\* after three polls.
C29_Witness ==
    /\ Done("restart")
    /\ call.post = Response(200, EmptyObject)
    /\ \A i \in 1..3 : ~Answered(call.replies[i])
    /\ call.polls = 3
    /\ ~call.returned

\* C23: an iteration whose telemetry fetch fails takes no decision, sends
\* nothing to the hardware and writes no snapshot; the operating point and
\* the trend state are as before, and the loop is at its next fetch.
C23_FailedFetchChangesNothing ==
    [][(pc = "fetch" /\ pc' = "fetch")
        => /\ ~dec'.acted
           /\ UNCHANGED <<current_voltage, current_frequency, hw, snapshot>>
           /\ UNCHANGED <<last_hashrate, drop_count, stagnation_count, pid_loaded>>]_vars

\* A fetch has failed after an iteration that tracked a hashrate drop.
C23_Witness ==
    /\ pc = "fetch" /\ info = None /\ ~dec.acted
    /\ snapshot # None
    /\ last_hashrate # None /\ drop_count > 0

\* get_top_pools has run to its end and found no catalog row of finite
\* latency: the catalog is empty, or no host answered.
NoRowReachable ==
    Done("get_top_pools") /\ ~call.raised /\ FiniteRows(call.measured) = {}

\* Inside an iteration of the sampling loop.
InCycle == pc \in {"fetch", "adjust", "apply", "persist"}

C24_LoopLeftOnlyOnSignal ==
    pc \in {"finally", "exited"} => signals > 0

\* The decision of the iteration is the point the iteration began with.
Unchanged ==
    dec.acted /\ dec.voltage = dec.in_voltage /\ dec.frequency = dec.in_frequency

Occurs(event) == \E i \in 1..Len(events) : events[i] = event

CycleOrder == <<"read", "decide", "apply", "persist">>

\* C26: what an iteration has done so far is telemetry read, decision,
\* hardware apply, snapshot persist in that order, each at most once, also
\* when a SIGINT is handled during the iteration.
C26_CycleEventsInOrder ==
    /\ Len(events) <= Len(CycleOrder)
    /\ \A i \in 1..Len(events) : events[i] = CycleOrder[i]

\* C27: once a SIGINT has been handled the process leaves the loop and
\* exits through stop(), and the loop test never again starts an iteration:
\* at most the iteration in progress is completed.
C27_SignalEndsLoop ==
    /\ (signals > 0) ~> (pc = "exited")
    /\ [][signals > 0 => ~(pc = "while" /\ pc' = "fetch")]_vars

\* A SIGINT came during an iteration, the iteration was completed, and the
\* process has exited.
C27_Witness ==
    /\ pc = "exited" /\ signals > 0 /\ ~running
    /\ dec.acted

\* C28: when the process has exited after a SIGINT and its last snapshot
\* write succeeded, the snapshot holds the stored voltage and frequency as
\* they are at exit, wherever in the run the signal arrived.
C28_FinalSnapshotIsCurrentPoint ==
    (pc = "exited" /\ signals > 0 /\ saved = Some(TRUE))
    => snapshot = Some([voltage |-> current_voltage, frequency |-> current_frequency])

\* The process has exited after a SIGINT with a point that its last
\* iteration changed, and the final write succeeded.
C28_Witness ==
    /\ pc = "exited" /\ signals > 0 /\ saved = Some(TRUE)
    /\ dec.acted /\ ~Unchanged
    /\ snapshot = Some([voltage |-> current_voltage, frequency |-> current_frequency])

\* C31: measure_latency returns inf only when none of its attempts
\* succeeded; with one successful attempt or more the result is finite.
C31_InfiniteOnlyWhenAllFail ==
    Done("measure_latency")
    => (call.result = inf
          <=> \A i \in 1..Len(net.a) : net.a[i] = inf)

\* A selection without force that found a row stale.
FoundStale ==
    /\ Done("get_fastest_pools") /\ ~call.force_measure
    /\ \E i \in 1..Len(call.before) : ~IsFresh(call.before[i])

Remeasured ==
    \A i \in 1..Len(call.pools) : call.pools[i].last_tested = Some(Now)

\* C33: a selection over a catalog with rows measures exactly when force is
\* true or some row has no cached latency, or no last-tested timestamp, or
\* an unparsable one, or one older than the window of 15 minutes; a row
\* whose age is at most the window, latency and timestamp present, is fresh.
C33_StaleExactlyWhen ==
    (Done("get_fastest_pools") /\ call.before # <<>>)
    => (Remeasured
        <=> \/ call.force_measure
            \/ \E i \in 1..Len(call.before) :
                  LET row == call.before[i]
                  IN  \/ row.latency = None
                      \/ row.last_tested = None
                      \/ row.last_tested # None /\ ~row.last_tested[1].valid
                      \/ row.last_tested # None /\ row.last_tested[1].age > 15)

\* Without force a row with an unparsable timestamp, next to a row exactly
\* as old as the window, made the call measure.
C33_Witness ==
    /\ Done("get_fastest_pools") /\ ~call.force_measure
    /\ Len(call.before) = 2
    /\ call.before[1].last_tested = Some(Fresh) /\ call.before[1].latency # None
    /\ call.before[2].last_tested = Some(Garbled)
    /\ Remeasured

\* Without force two rows exactly as old as the window were left as cached.
C33_WitnessFresh ==
    /\ Done("get_fastest_pools") /\ ~call.force_measure
    /\ Len(call.before) = 2
    /\ \A i \in 1..2 : call.before[i].last_tested = Some(Fresh)
    /\ call.pools = call.before

\* The controllers that track the hashrate trend.
TrendKinds == {"adjust", "apply_strategy", "normal_mode"}

\* C34: every decision of a trend-tracking controller, whatever its branch,
\* leaves drop_count one above its old value when the reading is strictly
\* below the previous one, and 0 when it is equal or higher or when there is
\* no previous reading; from a count of 0 before the first reading this is
\* the length of the current run of strictly falling readings.
C34_DropCountIsRunLength ==
    [][(dec'.acted /\ ~dec.acted /\ kind \in TrendKinds)
       => drop_count' = IF last_hashrate # None /\ dec'.hashrate < last_hashrate[1]
                        THEN drop_count + 1
                        ELSE 0]_vars

\* A third falling reading in a row arrived over the target temperature:
\* the frequency was stepped down and the drop was counted.
C34_Witness ==
    /\ kind = "adjust" /\ dec.acted
    /\ dec.branch = "temp_freq"
    /\ last_hashrate = Some(dec.hashrate)
    /\ drop_count = 3

\* An equal reading under a power constraint reset the count.
C34_WitnessReset ==
    /\ kind = "normal_mode" /\ dec.acted
    /\ dec.branch = "power_volt"
    /\ stagnation_count > 0
    /\ drop_count = 0

\* A decision of the optimization branch entered with the frequency at its
\* ceiling and the voltage below its ceiling.
OptimizedAtFrequencyCeiling ==
    /\ dec.acted /\ kind \in TrendKinds /\ dec.branch = "optimize"
    /\ dec.in_frequency >= cfg.max_frequency
    /\ dec.in_voltage < cfg.max_voltage

\* C35: in the optimization branch, entered with the frequency at its
\* ceiling and the voltage below its ceiling, the voltage returned is
\* strictly above the input voltage and not above the voltage ceiling.
C35_StepUpAtFrequencyCeiling ==
    OptimizedAtFrequencyCeiling
    => dec.voltage > dec.in_voltage /\ dec.voltage <= cfg.max_voltage

\* The same for the strategies of bitaxepid.py and implementations.py only.
C35_StrategiesStepUp ==
    (OptimizedAtFrequencyCeiling /\ kind # "normal_mode")
    => dec.voltage = dec.in_voltage + cfg.voltage_step /\ dec.voltage <= cfg.max_voltage

\* The selection measured a catalog with rows and the save of the refreshed
\* catalog failed, at the temporary file or at the rename.
SaveFailed ==
    /\ call.fn = "get_fastest_pools" /\ call.stage \in {"done", "raised"}
    /\ call.measuring /\ call.before # <<>>
    /\ call.write \in {"temp_file", "replace"}

\* C36: when writing the refreshed catalog fails, at the temporary file or
\* at the rename, the catalog file keeps its rows and the call returns with
\* the freshly measured rows to select from.
C36_FailedWriteKeepsCatalog ==
    SaveFailed
    => /\ catalog.rows = call.before
       /\ call.stage = "done"
       /\ Len(call.pools) = Len(call.before)
       /\ \A i \in 1..Len(call.pools) : call.pools[i].last_tested = Some(Now)

\* The rename failed: the file is as before, the measured rows are returned.
C36_RenameFailureReturnsRows ==
    (SaveFailed /\ call.write = "replace")
    => /\ catalog.rows = call.before
       /\ call.stage = "done"
       /\ Len(call.pools) = Len(call.before)
       /\ \A i \in 1..Len(call.pools) : call.pools[i].last_tested = Some(Now)

\* The stratum_info entry a configured override stands for.
EntryOf(configured) ==
    [endpoint |-> parse_endpoint(configured[1]).hostname,
     port |-> parse_endpoint(configured[1]).port]

\* C37: in the list get_top_pools returns, a configured PRIMARY_STRATUM is
\* element 0 and a configured BACKUP_STRATUM is element 1: a backup
\* configured alone is not in the primary position.
C37_OverridesKeepTheirPosition ==
    (Done("get_top_pools") /\ ~call.raised)
    => /\ call.config.PRIMARY_STRATUM # None
             => /\ Len(call.result) >= 1
                /\ call.result[1] = EntryOf(call.config.PRIMARY_STRATUM)
       /\ call.config.BACKUP_STRATUM # None
             => /\ Len(call.result) >= 2
                /\ call.result[2] = EntryOf(call.config.BACKUP_STRATUM)

\* A configured primary is always element 0, and with it a configured
\* backup is element 1.
C37_PrimaryFirst ==
    (Done("get_top_pools") /\ ~call.raised /\ call.config.PRIMARY_STRATUM # None)
    => /\ call.result[1] = EntryOf(call.config.PRIMARY_STRATUM)
       /\ call.config.BACKUP_STRATUM # None
             => call.result[2] = EntryOf(call.config.BACKUP_STRATUM)

\* C38: after every completed cycle the snapshot and the stored point both
\* equal the voltage and frequency the gateway sent to the device in that
\* cycle.
C38_StoredEqualsSent ==
    (dec.acted /\ pc = "fetch")
    => /\ hw # None /\ snapshot # None
       /\ current_voltage = hw[1].coreVoltage
       /\ current_frequency = hw[1].frequency
       /\ snapshot[1].voltage = hw[1].coreVoltage
       /\ snapshot[1].frequency = hw[1].frequency

\* The same for the cycles entered with a voltage within the envelope, and
\* for the frequency and the agreement of snapshot and stored point always.
C38_StoredEqualsSentInRange ==
    (dec.acted /\ pc = "fetch")
    => /\ hw # None /\ snapshot # None
       /\ current_frequency = hw[1].frequency
       /\ snapshot[1] = [voltage |-> current_voltage, frequency |-> current_frequency]
       /\ (dec.in_voltage >= cfg.min_voltage /\ dec.in_voltage <= cfg.max_voltage)
             => current_voltage = hw[1].coreVoltage

\* The read-back was obtained and shows the six fields as requested.
Confirmed ==
    /\ call.reply.kind = "response" /\ call.reply.status = 200
    /\ \A k \in StratumKeys :
          call.reply.body[k] = Some(settings(call.primary, call.backup)[k])

\* C39: set_stratum returns True only if the PATCH was answered with 200
\* and the read-back was obtained and shows all six stratum fields equal to
\* the requested values; without a read-back, or with a differing field, it
\* returns False.
C39_TrueOnlyWhenConfirmed ==
    Done("set_stratum")
    => (call.returned
        <=> /\ call.patch.kind = "response" /\ call.patch.status = 200
            /\ Confirmed)

\* True is returned only after a 200, and never when a non-empty read-back
\* shows a differing field.
C39_TrueOnlyWhenNotRefuted ==
    (Done("set_stratum") /\ call.returned)
    => /\ call.patch.kind = "response" /\ call.patch.status = 200
       /\ \/ Confirmed
          \/ call.reply.kind # "response"
          \/ call.reply.status # 200
          \/ \A k \in InfoKeys : call.reply.body[k] = None

\* A sample is fetched that reports a temperature above the target.
HotSample ==
    (pc = "fetch" /\ pc' = "adjust")
    => info'[1].temp # None /\ info'[1].temp[1] > cfg.target_temp

\* The stored point is within the envelope and on the step grid.
InRangeAligned ==
    /\ current_voltage >= cfg.min_voltage /\ current_voltage <= cfg.max_voltage
    /\ current_frequency >= cfg.min_frequency /\ current_frequency <= cfg.max_frequency
    /\ (current_voltage - cfg.min_voltage) % cfg.voltage_step = 0
    /\ (current_frequency - cfg.min_frequency) % cfg.frequency_step = 0

AtFloor ==
    current_voltage = cfg.min_voltage /\ current_frequency = cfg.min_frequency

\* The last decision was taken on a sample above the target, at a point
\* within the envelope and on the step grid.
HotDecision ==
    /\ dec.acted /\ dec.temp > cfg.target_temp
    /\ dec.in_voltage >= cfg.min_voltage /\ dec.in_voltage <= cfg.max_voltage
    /\ dec.in_frequency >= cfg.min_frequency /\ dec.in_frequency <= cfg.max_frequency
    /\ (dec.in_voltage - cfg.min_voltage) % cfg.voltage_step = 0
    /\ (dec.in_frequency - cfg.min_frequency) % cfg.frequency_step = 0

\* C40: from an in-range, step-aligned point, if from some cycle on every
\* sample reports temp > target_temp (and fetches keep succeeding), the
\* point settles at (min_voltage, min_frequency) for good; after every
\* cycle on such a sample neither axis has risen or is below its floor.
\* PID and temp-watch strategy alike.
C40_HotRunSettlesAtFloor ==
    /\ InRangeAligned => ((<>[][HotSample]_vars) => <>[]AtFloor)
    /\ [](HotDecision
          => /\ current_voltage <= dec.in_voltage
             /\ current_frequency <= dec.in_frequency
             /\ current_voltage >= cfg.min_voltage
             /\ current_frequency >= cfg.min_frequency)

\* The temp-watch strategy stepped the voltage down to its floor with the
\* frequency at its floor, on a sample above the target.
C40_Witness ==
    /\ kind = "temp_watch" /\ dec.acted
    /\ dec.temp > cfg.target_temp
    /\ dec.branch = "temp_volt"
    /\ dec.in_voltage = cfg.min_voltage + cfg.voltage_step
    /\ AtFloor

\* The PID strategy, at both floors on a sample above the target, held.
C40_WitnessPID ==
    /\ kind = "adjust" /\ dec.acted
    /\ dec.temp > cfg.target_temp
    /\ dec.branch = "temp_hold"
    /\ dec.in_voltage = cfg.min_voltage /\ dec.in_frequency = cfg.min_frequency
    /\ AtFloor

====
